---- MODULE Spec2Model ----
(***************************************************************************)
(* Model of the RAG question-answering repository:                         *)
(*   - the hybrid vector store (src/src/services/vector_store.py) and the  *)
(*     ingestion pipeline's collection handling                            *)
(*     (src/data_ingestion/pipeline.py), specification SpecStore;          *)
(*   - the rewrite -> retrieve -> generate workflow                        *)
(*     (src/src/workflows, src/src/services/rag_service.py),               *)
(*     specification Spec.                                                 *)
(*                                                                         *)
(* Conventions.  A Python Optional value is a sequence of length at most   *)
(* one: None is <<>> and a present value x is <<x>>.  Free text whose      *)
(* characters matter (the answer) is a sequence of one-character strings;  *)
(* other texts are atoms.  Point ids are pairs <<kind, n>>.                *)
(***************************************************************************)
EXTENDS Integers, Sequences, FiniteSets, TLC

VARIABLES
    coll,         \* the Qdrant collection: existence, configuration, points
    createCalls,  \* number of create_collection calls the engine carried out
    ensuring,     \* per initialising process: position in _ensure_collection
    totalAdded,   \* number of passages handed to add_documents / upload_points
    nextUuid,     \* how many uuid4 ids the pipeline has drawn
    probeLen,     \* length of the dense provider's output vector
    acked,        \* payloads of the batches whose add / upload returned
    last,         \* outcome of the last store operation
    pc,           \* per request: position in ask / the compiled workflow
    asked,        \* per request: the question passed to ask
    gstate,       \* per state instance: the GraphState dict
    trace,        \* per request: the stages executed so far, in order
    calls,        \* per request: the external calls issued so far, in order
    response,     \* per request: the RAGResponse returned (Optional)
    raised,       \* per request: the exception ask ended with (Optional)
    retry,        \* one provider call under the retry decorator
    cleaner,      \* one use of the TextCleaner
    chunker,      \* one use of the ChunkerFactory and its chunker
    graph,        \* one RAGGraph object and one RAGService construction
    app,          \* the FastAPI application: startup and one request
    registry,     \* the class attributes of ChunkerFactory
    nodeRun       \* one execution of a workflow node on its own

storeVars ==
    <<coll, createCalls, ensuring, totalAdded, nextUuid, probeLen, acked,
      last>>
flowVars == <<pc, asked, gstate, trace, calls, response, raised>>
unitVars == <<retry, cleaner, chunker>>
appVars == <<graph, app, registry, nodeRun>>
vars == <<coll, createCalls, ensuring, totalAdded, nextUuid, probeLen, acked,
          last,
          pc, asked, gstate, trace, calls, response, raised,
          retry, cleaner, chunker, graph, app, registry,
          nodeRun>>

----------------------------------------------------------------------------
(* Bounds of the model *)

\* number of ask requests in flight
NumRequests == 2
\* number of passages handed to add_documents / _index_chunks in one behaviour
MaxTotal == 3

(* Program constants *)

\* size of the dense vector space hard-coded by QdrantVectorStore
StoreDenseSize == 768
\* the constant of Qdrant's Reciprocal Rank Fusion, 1/(rank + 2), rank from 0
RRFConst == 2
\* k of the RetrieveNode in the workflow specification
RagK == 2

----------------------------------------------------------------------------
(* Python values *)

None == <<>>
Some(x) == <<x>>

\* truthiness of a Python list
Truthy(list) == Len(list) > 0

Min(a, b) == IF a < b THEN a ELSE b

\* seq[:n]
Take(seq, n) == SubSeq(seq, 1, Min(n, Len(seq)))

Range(seq) == {seq[i] : i \in 1..Len(seq)}

\* all sequences without repetition over the elements of S, of every length
RECURSIVE InjSeqs(_)
InjSeqs(S) ==
    {<<>>} \cup UNION {{<<x>> \o t : t \in InjSeqs(S \ {x})} : x \in S}

\* position of x in seq from 0, or -1
RECURSIVE IndexOf(_, _)
IndexOf(seq, x) ==
    IF Len(seq) = 0 THEN -1
    ELSE IF Head(seq) = x THEN 0
    ELSE LET r == IndexOf(Tail(seq), x) IN IF r = -1 THEN -1 ELSE r + 1

----------------------------------------------------------------------------
(* The collection and its points *)

Contents == {"A", "B", "C"}
Years == {2021, 2022}

\* the passages offered to the store: content and optional year
Docs ==
    { [content |-> "A", year |-> Some(2021)],
      [content |-> "B", year |-> Some(2022)],
      [content |-> "C", year |-> None] }

Queries == {"q1", "q2"}

\* the output lengths a dense embedding provider may have
ProbeLens == {768, 1536}

\* cosine similarity rank of a content for a query, as the dense embedder
\* and the engine see it (larger is nearer)
DenseSim(query, content) ==
    IF query \in {"q1", "s1"}
    THEN (IF content = "A" THEN 3 ELSE IF content = "B" THEN 2 ELSE 1)
    ELSE (IF content = "C" THEN 3 ELSE IF content = "A" THEN 2 ELSE 1)

\* sparse (BM25) score of a content for a query; 0 when no term is shared
SparseSim(query, content) ==
    IF query \in {"q1", "s1"}
    THEN (IF content = "B" THEN 3 ELSE IF content = "C" THEN 2 ELSE 1)
    ELSE (IF content = "A" THEN 1 ELSE 0)

NoPoints == [id \in {} |-> [content |-> "A", year |-> None]]

AbsentCollection ==
    [exists |-> FALSE, dense_size |-> 0, sparse |-> FALSE,
     year_index |-> FALSE, points |-> NoPoints]

Ids(points) == DOMAIN points

\* client.upsert / client.upload_points: write each point under its id,
\* replacing a point that already has that id
Upsert(points, newPoints) ==
    [id \in DOMAIN points \cup DOMAIN newPoints |->
        IF id \in DOMAIN newPoints THEN newPoints[id] ELSE points[id]]

\* the outcome record of a store operation
Outcome(op, exc, cause, query, years, k, tie, hits, result) ==
    [op |-> op, raised |-> exc, cause |-> cause, query |-> query,
     years |-> years, k |-> k, tie |-> tie, hits |-> hits,
     result |-> result]

NoOutcome == Outcome("none", None, "none", "", None, 0, "", <<>>, <<>>)

\* the outcome of a store operation that returned nothing
Succeeded(op) == Outcome(op, None, "none", "", None, 0, "", <<>>, <<>>)

\* the outcome of a store operation that failed with the raw exception exc
\* raised to the caller as surfaced
Failed(op, exc, surfaced) ==
    Outcome(op, Some(surfaced), exc, "", None, 0, "", <<>>, <<>>)

\* the failures the collaborators of the store may raise, by call site
DenseFailures == {"EmbeddingException", "ResourceExhausted"}
SparseFailures == {"EmbeddingException"}
ClientFailures == {"UnexpectedResponse", "ConnectionError"}

\* a handler that wraps the failures of the storage client only
WrapClientFailureOnly(exc) ==
    IF exc \in ClientFailures THEN "VectorStoreException" ELSE exc

\* except Exception as e: raise VectorStoreException(...) from e
WrapStoreFailure(exc) == "VectorStoreException"

----------------------------------------------------------------------------
(* Collection initialisation *)

\* an initialisation that recreates the collection on every start
StoreRecreated(c) ==
    [exists |-> TRUE, dense_size |-> StoreDenseSize, sparse |-> TRUE,
     year_index |-> FALSE, points |-> NoPoints]

\* client.create_collection of QdrantVectorStore._ensure_collection: the
\* collection after the call; the engine rejects the call when a collection
\* of that name exists and leaves it as it is
StoreEnsured(c) ==
    IF c.exists THEN c
    ELSE [exists |-> TRUE, dense_size |-> StoreDenseSize, sparse |-> TRUE,
          year_index |-> FALSE, points |-> NoPoints]

\* client.create_collection of IngestionService._ensure_collection, sized by
\* the probe vector: the collection after the call
PipelineCreated(c, probe) ==
    IF c.exists THEN c
    ELSE [exists |-> TRUE, dense_size |-> probe, sparse |-> TRUE,
          year_index |-> FALSE, points |-> NoPoints]

\* client.create_payload_index on year: the collection after the call
PipelineIndexed(c) == [c EXCEPT !.year_index = TRUE]

\* IngestionService._ensure_collection run to its end without a failure and
\* without another process in between: the collection after the call
PipelineEnsured(c, probe) ==
    IF c.exists THEN c ELSE PipelineIndexed(PipelineCreated(c, probe))

\* no process is inside _ensure_collection
NotEnsuring == [store |-> "idle", pipeline |-> "idle"]

\* the failures of dense_model.embed_query, called without a wrapper
ProbeFailures == {"ResourceExhausted"}

\* QdrantVectorStore.__init__ up to the test of _ensure_collection:
\* get_collections may fail; the constructor returns when the name is
\* listed, and goes on to create the collection when it is not
StoreListCollections ==
    /\ ensuring.store = "idle"
    /\ \/ \E fail \in ClientFailures :
            /\ last' = Failed("init", fail, WrapStoreFailure(fail))
            /\ UNCHANGED ensuring
       \/ /\ coll.exists
          /\ last' = Succeeded("init")
          /\ UNCHANGED ensuring
       \/ /\ ~coll.exists
          /\ ensuring' = [ensuring EXCEPT !.store = "absent"]
          /\ UNCHANGED last
    /\ UNCHANGED <<coll, createCalls, totalAdded, nextUuid, probeLen, acked>>

\* QdrantVectorStore(client, dense_embedder, sparse_embedder, name)
StoreInit ==
    /\ StoreListCollections
    /\ UNCHANGED <<flowVars, unitVars, appVars>>

\* the create_collection call of QdrantVectorStore._ensure_collection: the
\* call may fail; it is rejected (UnexpectedResponse) when another process
\* has created the collection since the name was looked up; every failure
\* leaves the constructor as VectorStoreException
StoreCreateCollection ==
    /\ ensuring.store = "absent"
    /\ ensuring' = [ensuring EXCEPT !.store = "idle"]
    /\ \/ \E fail \in ClientFailures :
            /\ last' = Failed("init", fail, WrapStoreFailure(fail))
            /\ UNCHANGED <<coll, createCalls>>
       \/ /\ coll' = StoreEnsured(coll)
          /\ createCalls' = IF coll.exists THEN createCalls
                            ELSE createCalls + 1
          /\ last' = IF coll.exists
                     THEN Failed("init", "UnexpectedResponse",
                                 WrapStoreFailure("UnexpectedResponse"))
                     ELSE Succeeded("init")
    /\ UNCHANGED <<totalAdded, nextUuid, probeLen, acked>>

StoreCreate ==
    /\ StoreCreateCollection
    /\ UNCHANGED <<flowVars, unitVars, appVars>>

\* IngestionService._ensure_collection, the test: collection_exists may fail
\* (the raw exception leaves the constructor); the method returns when the
\* collection exists and goes on to create it when it does not
PipelineCollectionExists ==
    /\ ensuring.pipeline = "idle"
    /\ \/ \E fail \in ClientFailures :
            /\ last' = Failed("pipeline_init", fail, fail)
            /\ UNCHANGED ensuring
       \/ /\ coll.exists
          /\ last' = Succeeded("pipeline_init")
          /\ UNCHANGED ensuring
       \/ /\ ~coll.exists
          /\ ensuring' = [ensuring EXCEPT !.pipeline = "absent"]
          /\ UNCHANGED last
    /\ UNCHANGED <<coll, createCalls, totalAdded, nextUuid, probeLen, acked>>

\* IngestionService() with the default chunking strategy and the embedding
\* key in place, up to the test of _ensure_collection
PipelineInit ==
    /\ PipelineCollectionExists
    /\ UNCHANGED <<flowVars, unitVars, appVars>>

\* IngestionService._ensure_collection, the probe embedding and the
\* create_collection call: either may fail, and the create call is rejected
\* when another process has created the collection in the meantime; the raw
\* exception leaves the constructor and nothing was created by it
PipelineCreateCollection ==
    /\ ensuring.pipeline = "absent"
    /\ \/ \E fail \in ProbeFailures \cup ClientFailures :
            /\ last' = Failed("pipeline_init", fail, fail)
            /\ ensuring' = [ensuring EXCEPT !.pipeline = "idle"]
            /\ UNCHANGED <<coll, createCalls>>
       \/ /\ coll.exists
          /\ last' = Failed("pipeline_init", "UnexpectedResponse",
                            "UnexpectedResponse")
          /\ ensuring' = [ensuring EXCEPT !.pipeline = "idle"]
          /\ UNCHANGED <<coll, createCalls>>
       \/ /\ ~coll.exists
          /\ coll' = PipelineCreated(coll, probeLen)
          /\ createCalls' = createCalls + 1
          /\ ensuring' = [ensuring EXCEPT !.pipeline = "created"]
          /\ UNCHANGED last
    /\ UNCHANGED <<totalAdded, nextUuid, probeLen, acked>>

PipelineCreate ==
    /\ PipelineCreateCollection
    /\ UNCHANGED <<flowVars, unitVars, appVars>>

\* IngestionService._ensure_collection, the create_payload_index call on
\* the collection it has just created: when the call fails the raw
\* exception leaves the constructor and the collection stays without the
\* index
PipelineCreatePayloadIndex ==
    /\ ensuring.pipeline = "created"
    /\ ensuring' = [ensuring EXCEPT !.pipeline = "idle"]
    /\ \/ \E fail \in ClientFailures :
            /\ last' = Failed("pipeline_init", fail, fail)
            /\ UNCHANGED coll
       \/ /\ coll' = PipelineIndexed(coll)
          /\ last' = Succeeded("pipeline_init")
    /\ UNCHANGED <<createCalls, totalAdded, nextUuid, probeLen, acked>>

PipelineIndex ==
    /\ PipelineCreatePayloadIndex
    /\ UNCHANGED <<flowVars, unitVars, appVars>>

----------------------------------------------------------------------------
(* Adding passages *)

\* non-empty lists of at most n elements of S
Batches(S, n) == UNION {[1..m -> S] : m \in 1..n}

\* payload of the point built for a passage
Payload(doc) == [content |-> doc.content, year |-> doc.year]

\* the payloads of a batch
Payloads(docs) == {Payload(docs[i]) : i \in 1..Len(docs)}

\* id=idx of enumerate(docs) in add_documents
StorePointId(idx) == <<"int", idx>>

\* id=str(uuid.uuid4()) in _index_chunks: the n-th id drawn, unlike all others
UuidPointId(n) == <<"uuid", n>>

\* the points add_documents builds for a batch
StorePoints(docs) ==
    [id \in {StorePointId(i - 1) : i \in 1..Len(docs)} |->
        Payload(docs[id[2] + 1])]

\* the points _index_chunks builds for the chunks of one file
PipelinePoints(texts, year, drawn) ==
    [id \in {UuidPointId(drawn + i - 1) : i \in 1..Len(texts)} |->
        [content |-> texts[id[2] - drawn + 1], year |-> year]]

\* QdrantVectorStore.add_documents: every passage is embedded (dense, then
\* sparse) before the one upsert; any exception leaves as VectorStoreException.
\* client.upsert is called with its default wait=True and upload_points with
\* wait=True: the call returns after the engine applied the write, so the
\* points are in the collection in the state the call returns in.
\* a store that sends each point to the engine as soon as it is built
SentPerPassage(docs, at) == StorePoints(SubSeq(docs, 1, at - 1))

\* the points add_documents has sent to the engine when the embedding of
\* passage number `at` of the batch fails: none, the one upsert comes after
\* the loop that embeds every passage
SentBeforeFailure(docs, at) == StorePoints(<<>>)

AddDocuments ==
    /\ totalAdded < MaxTotal
    /\ \/ \E docs \in Batches(Docs, MaxTotal - totalAdded) :
          \E at \in 1..Len(docs) :
          \E fail \in DenseFailures \cup SparseFailures :
            /\ last' = Failed("add", fail, WrapStoreFailure(fail))
            /\ coll' = [coll EXCEPT
                           !.points = Upsert(@, SentBeforeFailure(docs, at))]
            /\ UNCHANGED <<totalAdded, acked>>
       \/ \E fail \in ClientFailures :
            /\ last' = Failed("add", fail, WrapStoreFailure(fail))
            /\ UNCHANGED <<coll, totalAdded, acked>>
       \/ /\ ~coll.exists
          /\ last' = Failed("add", "UnexpectedResponse",
                            WrapStoreFailure("UnexpectedResponse"))
          /\ UNCHANGED <<coll, totalAdded, acked>>
       \/ /\ coll.exists
          /\ \E docs \in Batches(Docs, MaxTotal - totalAdded) :
                /\ coll' = [coll EXCEPT
                               !.points = Upsert(@, StorePoints(docs))]
                /\ totalAdded' = totalAdded + Len(docs)
                /\ acked' = acked \cup Payloads(docs)
          /\ last' = Succeeded("add")
    /\ UNCHANGED <<createCalls, ensuring, nextUuid, probeLen>>
    /\ UNCHANGED <<flowVars, unitVars, appVars>>

\* the chunk lists of one file: every chunk carries the file's year
FileBatches(n) ==
    {b \in Batches(Docs, n) : \A i \in 1..Len(b) : b[i].year = b[1].year}

\* IngestionService._index_chunks: the chunks of one file, all with the
\* year extracted from the file's path (no year field when none was found);
\* a failure is not caught here
IndexChunks ==
    /\ totalAdded < MaxTotal
    /\ \/ \E fail \in DenseFailures \cup ClientFailures :
            /\ last' = Failed("index", fail, fail)
            /\ UNCHANGED <<coll, totalAdded, nextUuid, acked>>
       \/ /\ ~coll.exists
          /\ last' = Failed("index", "UnexpectedResponse",
                            "UnexpectedResponse")
          /\ UNCHANGED <<coll, totalAdded, nextUuid, acked>>
       \/ /\ coll.exists
          /\ \E chunks \in FileBatches(MaxTotal - totalAdded) :
                /\ coll' = [coll EXCEPT
                       !.points = Upsert(@, PipelinePoints(
                           [i \in 1..Len(chunks) |-> chunks[i].content],
                           chunks[1].year, nextUuid))]
                /\ totalAdded' = totalAdded + Len(chunks)
                /\ acked' = acked \cup Payloads(chunks)
                /\ nextUuid' = nextUuid + Len(chunks)
          /\ last' = Succeeded("index")
    /\ UNCHANGED <<createCalls, ensuring, probeLen>>
    /\ UNCHANGED <<flowVars, unitVars, appVars>>

----------------------------------------------------------------------------
(* Searching *)

\* the k arguments tried
KArgs == {1, 2}

\* the years arguments tried
YearArgs == {None, Some(<<>>), Some(<<2022>>), Some(<<2021, 2022>>)}

\* a search that never builds the filter
BuildNoYearFilter(years) == None

\* QdrantVectorStore._build_year_filter: None, or the list of should-conditions
BuildYearFilter(years) ==
    IF years = None \/ ~Truthy(years[1]) THEN None ELSE Some(years[1])

\* a point passes Filter(should=[year == y for y in years]) when at least
\* one condition matches its payload; no filter passes every point
MatchesFilter(filter, payload) ==
    \/ filter = None
    \/ \E i \in 1..Len(filter[1]) : payload.year = Some(filter[1][i])

\* the engine's order of two points of equal score: by internal order of the
\* points, oldest first or newest first
TieOrders == {"oldest", "newest"}

IdBefore(a, b) ==
    \/ a[1] = "int" /\ b[1] = "uuid"
    \/ a[1] = b[1] /\ a[2] < b[2]

\* x is ranked before y: higher score, or equal score and preferred
RankedBefore(x, y, score, tie) ==
    \/ score[x] > score[y]
    \/ /\ score[x] = score[y]
       /\ IF tie = "oldest" THEN IdBefore(x, y) ELSE IdBefore(y, x)

\* ids by non-increasing score, equal scores in the engine's order
RECURSIVE Ranked(_, _, _)
Ranked(ids, score, tie) ==
    IF ids = {} THEN <<>>
    ELSE LET best == CHOOSE x \in ids :
                        \A y \in ids \ {x} : RankedBefore(x, y, score, tie)
         IN  <<best>> \o Ranked(ids \ {best}, score, tie)

\* Prefetch(query=dense_vec, using="dense", filter, limit)
DenseCandidates(points, query, filter, limit, tie) ==
    LET ids == {id \in Ids(points) : MatchesFilter(filter, points[id])}
        score == [id \in ids |-> DenseSim(query, points[id].content)]
    IN  Take(Ranked(ids, score, tie), limit)

\* Prefetch(query=sparse_vec, using="sparse", filter, limit): only points
\* sharing a term with the query are candidates
SparseCandidates(points, query, filter, limit, tie) ==
    LET ids == {id \in Ids(points) :
                    /\ MatchesFilter(filter, points[id])
                    /\ SparseSim(query, points[id].content) > 0}
        score == [id \in ids |-> SparseSim(query, points[id].content)]
    IN  Take(Ranked(ids, score, tie), limit)

\* common denominator of 1/(rank + RRFConst) for ranks 0..n-1
RECURSIVE RRFScale(_)
RRFScale(n) == IF n = 0 THEN 1 ELSE (n - 1 + RRFConst) * RRFScale(n - 1)

\* contribution of one ranked list to a candidate, times scale
RRFTerm(list, id, scale) ==
    IF IndexOf(list, id) = -1 THEN 0
    ELSE scale \div (IndexOf(list, id) + RRFConst)

\* a fusion that keeps the better of the two contributions
RRFScoreMax(dense, sparse, id, scale) ==
    IF RRFTerm(dense, id, scale) > RRFTerm(sparse, id, scale)
    THEN RRFTerm(dense, id, scale) ELSE RRFTerm(sparse, id, scale)

\* fused score of a candidate, times scale: the sum over both lists
RRFScore(dense, sparse, id, scale) ==
    RRFTerm(dense, id, scale) + RRFTerm(sparse, id, scale)

\* FusionQuery(fusion=RRF), limit=k: the k best candidates by fused score
Fused(dense, sparse, k, tie) ==
    LET ids == Range(dense) \cup Range(sparse)
        scale == RRFScale(Len(dense) + Len(sparse))
        score == [id \in ids |-> RRFScore(dense, sparse, id, scale)]
    IN  Take(Ranked(ids, score, tie), k)

\* the ids query_points returns for advanced_search
AdvancedHits(points, query, years, k, tie) ==
    LET filter == BuildYearFilter(years)
    IN  Fused(DenseCandidates(points, query, filter, k * 2, tie),
              SparseCandidates(points, query, filter, k * 2, tie), k, tie)

\* [hit.payload["content"] for hit in results.points]
ContentsOf(points, hits) == [i \in 1..Len(hits) |-> points[hits[i]].content]

\* QdrantVectorStore.advanced_search: embed the query (dense, then sparse),
\* build the filter, run the fused query; any exception leaves as
\* VectorStoreException
AdvancedSearch ==
    /\ \/ \E fail \in DenseFailures \cup SparseFailures \cup ClientFailures :
            last' = Failed("advanced_search", fail, WrapStoreFailure(fail))
       \/ /\ ~coll.exists
          /\ last' = Failed("advanced_search", "UnexpectedResponse",
                            WrapStoreFailure("UnexpectedResponse"))
       \/ /\ coll.exists
          /\ \E query \in Queries, years \in YearArgs, k \in KArgs :
             \E tie \in TieOrders :
                LET hits == AdvancedHits(coll.points, query, years, k, tie)
                IN  last' = Outcome("advanced_search", None, "none",
                                    query, years, k, tie, hits,
                                    ContentsOf(coll.points, hits))
    /\ UNCHANGED <<coll, createCalls, ensuring, totalAdded, nextUuid, probeLen,
                   acked>>
    /\ UNCHANGED <<flowVars, unitVars, appVars>>

\* QdrantVectorStore.search: dense only, no filter
Search ==
    /\ \/ \E fail \in DenseFailures \cup ClientFailures :
            last' = Failed("search", fail, WrapStoreFailure(fail))
       \/ /\ ~coll.exists
          /\ last' = Failed("search", "UnexpectedResponse",
                            WrapStoreFailure("UnexpectedResponse"))
       \/ /\ coll.exists
          /\ \E query \in Queries, k \in KArgs :
             \E tie \in TieOrders :
                LET hits == DenseCandidates(coll.points, query, None, k, tie)
                IN  last' = Outcome("search", None, "none", query, None, k,
                                    tie, hits,
                                    ContentsOf(coll.points, hits))
    /\ UNCHANGED <<coll, createCalls, ensuring, totalAdded, nextUuid, probeLen,
                   acked>>
    /\ UNCHANGED <<flowVars, unitVars, appVars>>

----------------------------------------------------------------------------
(* Provider calls under the retry decorator *)

\* Time is counted in ticks of half a second, from the start of the call.

\* stop_after_delay(5): ten ticks
StopAfterTicks == 10
\* wait_exponential(multiplier=0.5, min=0.5, max=2), in ticks
WaitMultiplierTicks == 1
WaitMinTicks == 1
WaitMaxTicks == 4
\* an attempt (one call of the provider) takes 0..MaxAttemptTicks ticks
MaxAttemptTicks == 1

\* the external call sites: the three decorated service methods, and the
\* calls made without a decorator
Sites ==
    {"gemini_generate", "openai_generate", "gemini_embed",
     "sparse_embed", "structured", "upsert", "query"}

\* the call sites under @retry(...)
Decorated(site) ==
    site \in {"gemini_generate", "openai_generate", "gemini_embed"}

\* the tuple given to retry_if_exception_type by the two Gemini services
Transient ==
    {"ResourceExhausted", "ServiceUnavailable", "TimeoutError",
     "ConnectionError"}

\* the exceptions the provider behind a call site may raise
ProviderFailures(site) ==
    CASE site \in {"gemini_generate", "gemini_embed"} ->
            {"ResourceExhausted", "ServiceUnavailable", "TimeoutError",
             "ConnectionError", "ValueError"}
      [] site = "openai_generate" ->
            {"RateLimitError", "TimeoutError", "ConnectionError",
             "ValueError"}
      [] site = "sparse_embed" -> {"ConnectionError", "ValueError"}
      [] site = "structured" -> {"ResourceExhausted", "ValueError"}
      [] site \in {"upsert", "query"} -> ClientFailures

\* retry_if_exception_type((...)) of the decorator
RetryOn(site) ==
    CASE site \in {"gemini_generate", "gemini_embed"} -> Transient
      [] site = "openai_generate" -> {"TimeoutError", "ConnectionError"}
      [] OTHER -> {}

\* a method body that re-raises every exception as it is
PassedThroughAll(site) == ProviderFailures(site)

\* except (...): raise  -- the exceptions the method body re-raises as they are
PassedThrough(site) ==
    CASE site \in {"gemini_generate", "gemini_embed"} ->
            {"ResourceExhausted", "ServiceUnavailable", "TimeoutError",
             "ConnectionError"}
      [] site = "openai_generate" -> {"TimeoutError", "ConnectionError"}
      [] OTHER -> {}

\* except Exception as e: raise <kind>(...) from e  -- the kind per call site;
\* the upsert and query calls are wrapped by the store's handlers
Wrapper(site) ==
    CASE site \in {"gemini_generate", "openai_generate"} -> "LLMException"
      [] site \in {"gemini_embed", "sparse_embed"} -> "EmbeddingException"
      [] site \in {"upsert", "query"} -> WrapStoreFailure("any")
      [] site = "structured" -> "none"

\* what one failing attempt raises out of the method body
BodyRaises(site, exc) ==
    IF exc \in PassedThrough(site) THEN exc ELSE Wrapper(site)

RECURSIVE Pow2(_)
Pow2(n) == IF n = 0 THEN 1 ELSE 2 * Pow2(n - 1)

Max(a, b) == IF a > b THEN a ELSE b

\* wait_exponential: the sleep after failed attempt number n
WaitExponential(n) ==
    Max(WaitMinTicks, Min(WaitMultiplierTicks * Pow2(n - 1), WaitMaxTicks))

\* stop_after_delay: evaluated when an attempt has failed, on the time since
\* the start of the call
StopAfterDelay(elapsed) == elapsed >= StopAfterTicks

\* the record of one call: causes are the exceptions of the provider, one per
\* failed attempt; starts are the times the attempts began; sleeps counts the
\* backoff waits
RetryState(phase, site, starts, causes, elapsed, sleeps, exc) ==
    [phase |-> phase, site |-> site, starts |-> starts, causes |-> causes,
     elapsed |-> elapsed, sleeps |-> sleeps, raised |-> exc]

NoRetry == RetryState("idle", "none", <<>>, <<>>, 0, 0, None)

\* the service method (or the undecorated call) is called: first attempt
RetryCall ==
    /\ retry.phase = "idle"
    /\ \E site \in Sites :
          retry' = RetryState("attempt", site, <<0>>, <<>>, 0, 0, None)
    /\ UNCHANGED <<storeVars, flowVars, cleaner, chunker, appVars>>

\* the running attempt ends after some ticks: with a result, or with an
\* exception; the decorator re-raises what it does not retry on, re-raises the
\* last exception when stop_after_delay holds (reraise=True), and sleeps
\* otherwise
AttemptEnds ==
    /\ retry.phase = "attempt"
    /\ \E ticks \in 0..MaxAttemptTicks :
        LET now == retry.elapsed + ticks
            ended(phase, causes, exc) ==
                RetryState(phase, retry.site, retry.starts, causes, now,
                           retry.sleeps, exc)
        IN  \/ retry' = ended("returned", retry.causes, None)
            \/ \E exc \in ProviderFailures(retry.site) :
                LET causes == Append(retry.causes, exc)
                    out == BodyRaises(retry.site, exc)
                IN  retry' =
                      IF out = "none"
                      THEN ended("fellback", causes, None)
                      ELSE IF ~Decorated(retry.site)
                              \/ out \notin RetryOn(retry.site)
                              \/ StopAfterDelay(now)
                      THEN ended("raised", causes, Some(out))
                      ELSE ended("backoff", causes, None)
    /\ UNCHANGED <<storeVars, flowVars, cleaner, chunker, appVars>>

\* the decorator sleeps wait_exponential and starts the next attempt
Backoff ==
    /\ retry.phase = "backoff"
    /\ LET now == retry.elapsed + WaitExponential(Len(retry.starts))
       IN  retry' = RetryState("attempt", retry.site,
                               Append(retry.starts, now), retry.causes, now,
                               retry.sleeps + 1, None)
    /\ UNCHANGED <<storeVars, flowVars, cleaner, chunker, appVars>>

----------------------------------------------------------------------------
(* The question-answering workflow *)

Reqs == 1..NumRequests

Questions == {"q1", "q2"}

\* the query the structured-extraction provider writes for a question
RewriteOf(question) == IF question = "q1" THEN "s1" ELSE "s2"

\* the years lists the structured-extraction provider may return
ExtractedYears == {<<>>, <<2022>>, <<2021, 2022>>}

\* the texts the generation provider may return
GenOutputs == {<<"a">>, <<" ", "a", "\n">>}

Whitespace == {" ", "\n", "\t", "\r"}

\* str.strip()
RECURSIVE LStrip(_)
LStrip(text) ==
    IF Len(text) > 0 /\ Head(text) \in Whitespace THEN LStrip(Tail(text))
    ELSE text

RECURSIVE RStrip(_)
RStrip(text) ==
    IF Len(text) > 0 /\ text[Len(text)] \in Whitespace
    THEN RStrip(SubSeq(text, 1, Len(text) - 1))
    ELSE text

Strip(text) == RStrip(LStrip(text))

\* initial_state of ask / run
InitialState(question) ==
    [question |-> question, rewritten_question |-> "", documents |-> <<>>,
     answer |-> <<>>, years |-> None]

NoState == InitialState("")

\* one state instance kept by the service and reused by every request
SlotShared(r) == 1

\* the state instance a request works on: the dict built by its own call
Slot(r) == r

\* sep.join(lines)
RECURSIVE Join(_, _)
Join(lines, sep) ==
    IF Len(lines) = 0 THEN <<>>
    ELSE IF Len(lines) = 1 THEN lines[1]
    ELSE lines[1] \o sep \o Join(Tail(lines), sep)

\* state[key] = value
SetKey(st, key, value) ==
    [k \in DOMAIN st \cup {key} |-> IF k = key THEN value ELSE st[k]]

\* state.get(key, default)
Get(st, key, default) == IF key \in DOMAIN st THEN st[key] ELSE default

\* RewriteNode.execute, try branch: the two fields written from the result
RewriteWrittenListAsIs(st, query, years) ==
    SetKey(SetKey(st, "rewritten_question", query), "years", Some(years))

RewriteWritten(st, query, years) ==
    SetKey(SetKey(st, "rewritten_question", query), "years",
           IF Truthy(years) THEN Some(years) ELSE None)

\* an except branch that forgets to reset years
RewriteFallbackKeepsYears(st) ==
    SetKey(st, "rewritten_question", st.question)

\* RewriteNode.execute, except branch
RewriteFallback(st) ==
    SetKey(SetKey(st, "rewritten_question", st.question), "years", None)

\* state.get("rewritten_question", state["question"]): the question only
\* when the key is missing
RetrieveQuery(st) == Get(st, "rewritten_question", st.question)

\* a retrieval that also forgets the years
RetrieveWrittenWithoutYears(st, docs) ==
    SetKey(SetKey(st, "documents", docs), "years", None)

\* RetrieveNode.execute: state["documents"] = documents
RetrieveWritten(st, docs) == SetKey(st, "documents", docs)

\* a prompt asking the rewritten question
GeneratePromptRewritten(st) ==
    [template |-> "generate",
     context |-> Join([i \in 1..Len(st.documents) |-> <<st.documents[i]>>],
                      <<"\n\n">>),
     question |-> RetrieveQuery(st)]

\* GenerateNode.execute: template.format(context="\n\n".join(documents),
\* question=state["question"]); the context is written as the sequence of
\* its pieces
GeneratePrompt(st) ==
    [template |-> "generate",
     context |-> Join([i \in 1..Len(st.documents) |-> <<st.documents[i]>>],
                      <<"\n\n">>),
     question |-> st.question]

\* GenerateNode.execute: state["answer"] = answer.strip()
GenerateWritten(st, text) == SetKey(st, "answer", Strip(text))

\* a response that leaves sources at the default of RAGResponse
ResponseWithoutSources(st) ==
    [answer |-> st.answer, sources |-> <<>>,
     rewritten_question |-> st.rewritten_question,
     years_extracted |-> st.years]

\* RAGResponse built by ask from the final state
ResponseOf(st) ==
    [answer |-> st.answer, sources |-> st.documents,
     rewritten_question |-> st.rewritten_question,
     years_extracted |-> st.years]

\* one external call, as logged per request; docs: the passages passed to
\* generate, or returned by advanced_search; failed: it raised, or its result
\* could not be used
Call(fn, query, years, k, docs, failed) ==
    [fn |-> fn, query |-> query, years |-> years, k |-> k, docs |-> docs,
     failed |-> failed]

\* a generation that is skipped when there is no passage
GenerateCallUnlessEmpty(st, failed) ==
    IF Len(st.documents) = 0 THEN <<>>
    ELSE <<Call("generate", st.question, None, 0, st.documents, failed)>>

\* GenerateNode.execute: the one call self.llm.generate(prompt, ...)
GenerateCall(st, failed) ==
    <<Call("generate", st.question, None, 0, st.documents, failed)>>

\* RAGGraph.build: set_entry_point and add_edge
EntryPoint == "rewrite"

\* a workflow whose rewrite node is wired straight to generate
EdgeSkipsRetrieve(node) ==
    CASE node = "rewrite" -> "generate"
      [] node = "retrieve" -> "generate"
      [] node = "generate" -> "END"

Edge(node) ==
    CASE node = "rewrite" -> "retrieve"
      [] node = "retrieve" -> "generate"
      [] node = "generate" -> "END"

\* a node returned its state: the workflow follows the node's edge
Advance(r, node, new, call) ==
    /\ gstate' = [gstate EXCEPT ![Slot(r)] = new]
    /\ pc' = [pc EXCEPT ![r] = Edge(node)]
    /\ trace' = [trace EXCEPT ![r] = Append(@, node)]
    /\ calls' = [calls EXCEPT ![r] = @ \o call]
    /\ UNCHANGED <<asked, response, raised>>

\* a workflow that swallows the exception of a node and goes on
FailRecovered(r, node, exc, call) ==
    Advance(r, node, gstate[Slot(r)], call)

\* a node raised: nothing in the workflow or in ask catches it
Fail(r, node, exc, call) ==
    /\ pc' = [pc EXCEPT ![r] = "failed"]
    /\ raised' = [raised EXCEPT ![r] = Some(exc)]
    /\ trace' = [trace EXCEPT ![r] = Append(@, node)]
    /\ calls' = [calls EXCEPT ![r] = @ \o call]
    /\ UNCHANGED <<gstate, asked, response>>

\* RAGService.ask / RAGGraph.run: build the initial state, enter the workflow
Ask(r) ==
    /\ pc[r] = "idle"
    /\ \E question \in Questions :
        /\ asked' = [asked EXCEPT ![r] = question]
        /\ gstate' = [gstate EXCEPT ![Slot(r)] = InitialState(question)]
    /\ pc' = [pc EXCEPT ![r] = EntryPoint]
    /\ UNCHANGED <<trace, calls, response, raised>>
    /\ UNCHANGED <<storeVars, unitVars, appVars>>

\* RewriteNode.execute
Rewrite(r) ==
    LET st == gstate[Slot(r)]
        call(failed) ==
            <<Call("structured", st.question, None, 0, <<>>, failed)>>
    IN  /\ pc[r] = "rewrite"
        /\ \/ \* the prompt is missing: raised before the try block
              Fail(r, "rewrite", "PromptException", <<>>)
           \/ \* the structured call returns a RewriteOutput
              \E years \in ExtractedYears :
                 Advance(r, "rewrite",
                         RewriteWritten(st, RewriteOf(st.question), years),
                         call(FALSE))
           \/ \* the structured call raises
              Advance(r, "rewrite", RewriteFallback(st), call(TRUE))
           \/ \* the result fails in use after both fields were written
              \E years \in ExtractedYears :
                 Advance(r, "rewrite",
                         RewriteFallback(
                            RewriteWritten(st, RewriteOf(st.question),
                                           years)),
                         call(TRUE))
        /\ UNCHANGED <<storeVars, unitVars, appVars>>

\* RetrieveNode.execute
Retrieve(r) ==
    LET st == gstate[Slot(r)]
        query == RetrieveQuery(st)
        call(docs, failed) ==
            <<Call("advanced_search", query, st.years, RagK, docs, failed)>>
    IN  /\ pc[r] = "retrieve"
        /\ \/ \* advanced_search raises
              \E exc \in DenseFailures \cup SparseFailures
                         \cup ClientFailures :
                 Fail(r, "retrieve", WrapStoreFailure(exc),
                      call(<<>>, TRUE))
           \/ /\ coll.exists
              /\ \E tie \in TieOrders :
                  LET docs == ContentsOf(coll.points,
                                 AdvancedHits(coll.points, query, st.years,
                                              RagK, tie))
                  IN  Advance(r, "retrieve", RetrieveWritten(st, docs),
                              call(docs, FALSE))
        /\ UNCHANGED <<storeVars, unitVars, appVars>>

\* GenerateNode.execute
Generate(r) ==
    LET st == gstate[Slot(r)]
        call(failed) == GenerateCall(st, failed)
    IN  /\ pc[r] = "generate"
        /\ \/ \* the prompt is missing
              Fail(r, "generate", "PromptException", <<>>)
           \/ \* the generation provider raises
              \E exc \in {"LLMException", "ResourceExhausted"} :
                 Fail(r, "generate", exc, call(TRUE))
           \/ \E out \in GenOutputs :
                 Advance(r, "generate", GenerateWritten(st, out),
                         call(FALSE))
        /\ UNCHANGED <<storeVars, unitVars, appVars>>

\* RAGService.ask after the workflow reached END: build the response
AskReturn(r) ==
    /\ pc[r] = "END"
    /\ response' = [response EXCEPT ![r] = Some(ResponseOf(gstate[Slot(r)]))]
    /\ pc' = [pc EXCEPT ![r] = "done"]
    /\ UNCHANGED <<asked, gstate, trace, calls, raised>>
    /\ UNCHANGED <<storeVars, unitVars, appVars>>

\* the collection the pipeline leaves behind after indexing the single-chunk
\* files docs, in this order, into a collection it created
IngestedPoints(docs) ==
    [id \in {UuidPointId(i - 1) : i \in 1..Len(docs)} |->
        Payload(docs[id[2] + 1])]

\* the passages of the collection the workflow is served from
SampleDocs ==
    << [content |-> "A", year |-> Some(2021)],
       [content |-> "B", year |-> Some(2022)],
       [content |-> "C", year |-> None] >>

\* no request was made
FlowIdle ==
    /\ pc = [r \in Reqs |-> "idle"]
    /\ asked = [r \in Reqs |-> ""]
    /\ gstate = [r \in Reqs |-> NoState]
    /\ trace = [r \in Reqs |-> <<>>]
    /\ calls = [r \in Reqs |-> <<>>]
    /\ response = [r \in Reqs |-> None]
    /\ raised = [r \in Reqs |-> None]

----------------------------------------------------------------------------
(* The text cleaner.  A text is a sequence of characters; the character     *)
(* U+00B7 (one of the noise symbols) is written "middot".                   *)

\* str.isalpha and [a-zA-Z] on the characters a text here can hold: the
\* letters of the Latin alphabet
Letters ==
    { "a", "b", "c", "d", "e", "f", "g", "h", "i", "j", "k", "l", "m",
      "n", "o", "p", "q", "r", "s", "t", "u", "v", "w", "x", "y", "z",
      "A", "B", "C", "D", "E", "F", "G", "H", "I", "J", "K", "L", "M",
      "N", "O", "P", "Q", "R", "S", "T", "U", "V", "W", "X", "Y", "Z" }
\* str.isdigit and \d
Digits == {"0", "1", "2", "3", "4", "5", "6", "7", "8", "9"}
\* str.isalnum
Alnum == Letters \cup Digits
\* \w of a regular expression
WordChars == Alnum \cup {"_"}
\* self.noise_chars
NoiseChars == {"middot"}
\* length_threshold of remove_suspicious_long_words
LongWordThreshold == 20
\* threshold of remove_empty_tables, in percent
TableThresholdPercent == 50

\* text.startswith(pat)
StartsWith(text, pat) ==
    Len(text) >= Len(pat) /\ SubSeq(text, 1, Len(pat)) = pat

\* text[n:]
Drop(text, n) == SubSeq(text, n + 1, Len(text))

\* length of the longest prefix of text made of characters of S
RECURSIVE RunLen(_, _)
RunLen(text, S) ==
    IF Len(text) > 0 /\ Head(text) \in S THEN 1 + RunLen(Tail(text), S)
    ELSE 0

\* position of the first character of S in text, or 0
FirstOf(text, S) ==
    IF \E i \in 1..Len(text) : text[i] \in S
    THEN CHOOSE i \in 1..Len(text) :
            text[i] \in S /\ \A j \in 1..(i - 1) : text[j] \notin S
    ELSE 0

\* text.split(sep) for a one-character sep
RECURSIVE SplitAt(_, _)
SplitAt(text, sep) ==
    LET i == FirstOf(text, {sep})
    IN  IF i = 0 THEN <<text>>
        ELSE <<SubSeq(text, 1, i - 1)>> \o SplitAt(Drop(text, i), sep)

\* text.splitlines(): a line ends at "\n", "\r" or "\r\n"; no empty last line
RECURSIVE SplitLines(_)
SplitLines(text) ==
    LET i == FirstOf(text, {"\n", "\r"})
        skip == IF text[i] = "\r" /\ i < Len(text) /\ text[i + 1] = "\n"
                THEN i + 1 ELSE i
    IN  IF text = <<>> THEN <<>>
        ELSE IF i = 0 THEN <<text>>
        ELSE <<SubSeq(text, 1, i - 1)>> \o SplitLines(Drop(text, skip))

\* text.strip(chars) for the characters of S
RECURSIVE StripChars(_, _)
StripChars(text, S) ==
    IF Len(text) > 0 /\ Head(text) \in S THEN StripChars(Tail(text), S)
    ELSE IF Len(text) > 0 /\ text[Len(text)] \in S
    THEN StripChars(SubSeq(text, 1, Len(text) - 1), S)
    ELSE text

ImageTag ==
    <<"<", "!", "-", "-", " ", "i", "m", "a", "g", "e", " ", "-", "-", ">">>

\* text.replace(pat, ""): every occurrence, left to right
RECURSIVE RemoveAll(_, _)
RemoveAll(text, pat) ==
    IF Len(text) < Len(pat) THEN text
    ELSE IF StartsWith(text, pat) THEN RemoveAll(Drop(text, Len(pat)), pat)
    ELSE <<Head(text)>> \o RemoveAll(Tail(text), pat)

RemoveImageTags(text) == RemoveAll(text, ImageTag)

\* length of the match of GLYPH(?:<|&lt;)\d+(?:>|&gt;) at the start of text,
\* or 0
GlyphMatchLen(text) ==
    LET bracket(t, plain, entity) ==
            IF StartsWith(t, plain) THEN Len(plain)
            ELSE IF StartsWith(t, entity) THEN Len(entity) ELSE 0
        r1 == Drop(text, 5)
        open == bracket(r1, <<"<">>, <<"&", "l", "t", ";">>)
        r2 == Drop(r1, open)
        digits == RunLen(r2, Digits)
        close == bracket(Drop(r2, digits), <<">">>, <<"&", "g", "t", ";">>)
    IN  IF StartsWith(text, <<"G", "L", "Y", "P", "H">>)
           /\ open > 0 /\ digits > 0 /\ close > 0
        THEN 5 + open + digits + close
        ELSE 0

\* self.glyph_pattern.sub('', text)
RECURSIVE RemoveGlyphArtifacts(_)
RemoveGlyphArtifacts(text) ==
    IF Len(text) = 0 THEN text
    ELSE IF GlyphMatchLen(text) > 0
    THEN RemoveGlyphArtifacts(Drop(text, GlyphMatchLen(text)))
    ELSE <<Head(text)>> \o RemoveGlyphArtifacts(Tail(text))

\* self.noise_pattern.sub('', text)
RemoveNoiseSymbols(text) == SelectSeq(text, LAMBDA c : c \notin NoiseChars)

\* every word (maximal run of \w) that is alphabetic and longer than the
\* threshold is removed, wherever it occurs
RECURSIVE RemoveSuspiciousLongWords(_, _)
RemoveSuspiciousLongWords(text, length_threshold) ==
    LET n == RunLen(text, WordChars)
        word == SubSeq(text, 1, n)
    IN  IF Len(text) = 0 THEN text
        ELSE IF n = 0
        THEN <<Head(text)>>
                \o RemoveSuspiciousLongWords(Tail(text), length_threshold)
        ELSE (IF n > length_threshold /\ RunLen(word, Letters) = n
              THEN <<>> ELSE word)
                \o RemoveSuspiciousLongWords(Drop(text, n), length_threshold)

\* lines whose stripped form is one letter are removed
RemoveSingleCharacterLines(text) ==
    LET keep(line) ==
            ~(Len(Strip(line)) = 1 /\ Strip(line)[1] \in Letters)
    IN  Join(SelectSeq(SplitAt(text, "\n"), keep), <<"\n">>)

\* lines without an alphanumeric character are removed, unless blank, or
\* holding a pipe, or made of dashes, pluses and colons only
RemovePunctuationNoiseLines(text) ==
    LET keep(line) ==
            LET stripped == Strip(line)
            IN  \/ Len(stripped) = 0
                \/ \E i \in 1..Len(stripped) : stripped[i] \in Alnum
                \/ \E i \in 1..Len(stripped) : stripped[i] = "|"
                \/ \A i \in 1..Len(stripped) : stripped[i] \in {"-", "+", ":"}
    IN  Join(SelectSeq(SplitAt(text, "\n"), keep), <<"\n">>)

\* TextCleaner._is_table_cell_noise
IsTableCellNoise(cell) ==
    LET s == Strip(cell)
    IN  IF Len(s) = 0 THEN TRUE
        ELSE IF \E i \in 1..Len(s) : s[i] \in Digits THEN FALSE
        ELSE IF \E i \in 1..(Len(s) - 1) :
                    s[i] \in Letters /\ s[i + 1] \in Letters THEN FALSE
        ELSE TRUE

\* stripped.startswith('|') and stripped.endswith('|')
IsTableRow(line) ==
    LET stripped == Strip(line)
    IN  Len(stripped) > 0 /\ Head(stripped) = "|"
            /\ stripped[Len(stripped)] = "|"

\* re.match(r'^[\s\|\-\:\+]+$', row)
IsSeparatorRow(row) ==
    Len(row) > 0
        /\ \A i \in 1..Len(row) : row[i] \in Whitespace \cup {"|", "-", ":", "+"}

\* [c.strip() for c in row.strip('|').split('|')]
CellsOf(row) ==
    LET parts == SplitAt(StripChars(row, {"|"}), "|")
    IN  [i \in 1..Len(parts) |-> Strip(parts[i])]

\* the cells counted for a table block: those of its non-separator rows
RECURSIVE CountedCells(_)
CountedCells(block) ==
    IF Len(block) = 0 THEN <<>>
    ELSE (IF IsSeparatorRow(Head(block)) THEN <<>> ELSE CellsOf(Head(block)))
            \o CountedCells(Tail(block))

\* a block that is dropped as soon as its noise ratio reaches the threshold
KeepsBlockBelow(block, percent) ==
    LET cells == CountedCells(block)
        noise == Len(SelectSeq(cells, IsTableCellNoise))
    IN  Len(cells) = 0 \/ noise * 100 < percent * Len(cells)

\* ratio <= threshold, where ratio is noise_cells / total_cells, or 0 for a
\* block without counted cells
KeepsBlock(block, percent) ==
    LET cells == CountedCells(block)
        noise == Len(SelectSeq(cells, IsTableCellNoise))
    IN  Len(cells) = 0 \/ noise * 100 <= percent * Len(cells)

\* the number of table rows the lines start with
RECURSIVE TableRun(_)
TableRun(lines) ==
    IF Len(lines) > 0 /\ IsTableRow(Head(lines))
    THEN 1 + TableRun(Tail(lines)) ELSE 0

\* the loop of remove_empty_tables over the lines
RECURSIVE TableLoop(_, _)
TableLoop(lines, percent) ==
    LET j == TableRun(lines)
        table_block == SubSeq(lines, 1, j)
    IN  IF Len(lines) = 0 THEN <<>>
        ELSE IF j = 0
        THEN <<Head(lines)>> \o TableLoop(Tail(lines), percent)
        ELSE (IF KeepsBlock(table_block, percent) THEN table_block ELSE <<>>)
                \o TableLoop(Drop(lines, j), percent)

RemoveEmptyTables(text, percent) ==
    Join(TableLoop(SplitAt(text, "\n"), percent), <<"\n">>)

\* re.sub(r'\n{3,}', '\n\n', text)
RECURSIVE CollapseNewlines(_)
CollapseNewlines(text) ==
    LET n == RunLen(text, {"\n"})
    IN  IF Len(text) = 0 THEN text
        ELSE IF n >= 3 THEN <<"\n", "\n">> \o CollapseNewlines(Drop(text, n))
        ELSE IF n > 0
        THEN SubSeq(text, 1, n) \o CollapseNewlines(Drop(text, n))
        ELSE <<Head(text)>> \o CollapseNewlines(Tail(text))

NormalizeWhitespace(text) ==
    LET lines == SplitLines(text)
    IN  Strip(CollapseNewlines(
            Join([i \in 1..Len(lines) |-> RStrip(lines[i])], <<"\n">>)))

\* TextCleaner.clean_text
CleanText(text) ==
    IF Len(text) = 0 THEN <<>>
    ELSE NormalizeWhitespace(
           RemoveEmptyTables(
             RemovePunctuationNoiseLines(
               RemoveSingleCharacterLines(
                 RemoveSuspiciousLongWords(
                   RemoveNoiseSymbols(
                     RemoveGlyphArtifacts(RemoveImageTags(text))),
                   LongWordThreshold))),
             TableThresholdPercent))

\* the texts handed to the cleaner.  Raw texts: every text of at most
\* MaxTextLen characters of RawChars.  Tables: markdown tables of at most
\* MaxCells cells taken from CellTexts, one row per line, optionally between
\* two plain lines.  Samples: longer texts with the artifacts of extraction.
MaxTextLen == 3
MaxCells == 4

RawChars == {"a", "1", "|", "-", " ", "\n", "\r"}

RawTexts == UNION {[1..n -> RawChars] : n \in 0..MaxTextLen}

CellTexts == {<<>>, <<"x">>, <<"1", ".", "0">>, <<"-", "-">>, <<"a", "b">>}

\* the tables of r rows and c columns with r * c <= MaxCells
Tables ==
    UNION {UNION {[1..r -> [1..c -> CellTexts]] : c \in 1..(MaxCells \div r)} :
              r \in 1..MaxCells}

PlainLine == <<"a", "b">>

\* a table row as extracted: | cell | cell |
RECURSIVE RenderRow(_)
RenderRow(cells) ==
    IF Len(cells) = 0 THEN <<"|">>
    ELSE <<"|", " ">> \o Head(cells) \o <<" ">> \o RenderRow(Tail(cells))

RenderTable(rows, before, after) ==
    Join((IF before THEN <<PlainLine>> ELSE <<>>)
            \o [i \in 1..Len(rows) |-> RenderRow(rows[i])]
            \o (IF after THEN <<PlainLine>> ELSE <<>>), <<"\n">>)

SampleTexts ==
    { <<"G", "L", "Y", "middot", "P", "H", "<", "1", ">">>,
      <<"a", " ">> \o ImageTag \o <<"b">>,
      <<"G", "L", "Y", "P", "H", "&", "l", "t", ";", "1", "0", "&", "g",
        "t", ";", " ", "a", "b">>,
      [i \in 1..21 |-> "a"] \o <<" ", "a", "b", " ">> \o [i \in 1..21 |-> "a"],
      <<"a", "b", "\n", "\n", "\n", "\n", "a", "b", " ", "\r", "\n", "-">>,
      <<"l">>, <<"t">>, <<"l", "t">>, <<"&", "l", "t", ";">>,
      <<"a", "\n", "l", "\n", "a", "b">>,
      [i \in 1..20 |-> "a"] \o <<"l", "t">>,
      [i \in 1..21 |-> "a"] \o <<"l">>,
      <<"|", " ", "l", "t", " ", "|">>,
      <<"|", " ", "x", " ", "|", " ", "l", "t", " ", "|">> }

CleanerInput(text, rows, before, after) ==
    [text |-> text, rows |-> rows, before |-> before, after |-> after]

\* a table row without padding: |cell|cell|
RECURSIVE RenderTight(_)
RenderTight(cells) ==
    IF Len(cells) = 0 THEN <<"|">>
    ELSE <<"|">> \o Head(cells) \o RenderTight(Tail(cells))

\* the rows of at most MaxRowCells cells of ShapedCells, written padded or
\* not, with or without a space before the first and after the last pipe
MaxRowCells == 3

ShapedCells == {<<>>, <<"x">>, <<"a", "b">>}

ShapedRows ==
    { (IF lead THEN <<" ">> ELSE <<>>)
        \o (IF padded THEN RenderRow(cells) ELSE RenderTight(cells))
        \o (IF trail THEN <<" ">> ELSE <<>>) :
      cells \in UNION {[1..n -> ShapedCells] : n \in 1..MaxRowCells},
      lead \in BOOLEAN, trail \in BOOLEAN, padded \in BOOLEAN }

FlushRows == {<<"|", " ", "a", "b", " ", "|">>, <<"|", " ", "x", " ", "|">>,
              <<"|", "-", "-", "|">>}

\* a shaped row alone or next to a flush row, optionally after a plain line
ShapedTexts ==
    {Join(<<row>>, <<"\n">>) : row \in ShapedRows}
    \cup {Join(<<PlainLine, row>>, <<"\n">>) : row \in ShapedRows}
    \cup {Join(<<row, flush>>, <<"\n">>) :
              row \in ShapedRows, flush \in FlushRows}
    \cup {Join(<<flush, row>>, <<"\n">>) :
              row \in ShapedRows, flush \in FlushRows}

CleanerInputs ==
    {CleanerInput(t, <<>>, FALSE, FALSE) :
        t \in RawTexts \cup SampleTexts \cup ShapedTexts}
    \cup {CleanerInput(RenderTable(rows, b, a), rows, b, a) :
              rows \in Tables, b \in BOOLEAN, a \in BOOLEAN}

\* one use of the cleaner: the operation, its input (with the table it was
\* rendered from, if any), its output, and how many times clean_text ran
Cleaning(op, in, out, passes) ==
    [op |-> op, input |-> in.text, rows |-> in.rows, before |-> in.before,
     after |-> in.after, out |-> out, passes |-> passes]

NoCleaning ==
    Cleaning("none", CleanerInput(<<>>, <<>>, FALSE, FALSE), <<>>, 0)

\* cleaner.clean_text(text)
CleanTextCall ==
    /\ cleaner.op = "none"
    /\ \E in \in CleanerInputs :
          cleaner' = Cleaning("clean_text", in, CleanText(in.text), 1)
    /\ UNCHANGED <<storeVars, flowVars, retry, chunker, appVars>>

\* cleaner.clean_text(cleaned): the output of clean_text is cleaned again
CleanTextAgain ==
    /\ cleaner.op = "clean_text"
    /\ cleaner.passes = 1
    /\ cleaner' = Cleaning("clean_text",
                           CleanerInput(cleaner.out, <<>>, FALSE, FALSE),
                           CleanText(cleaner.out), 2)
    /\ UNCHANGED <<storeVars, flowVars, retry, chunker, appVars>>

\* cleaner.remove_empty_tables(text)
RemoveEmptyTablesCall ==
    /\ cleaner.op = "none"
    /\ \E in \in CleanerInputs :
          cleaner' = Cleaning("remove_empty_tables", in,
                        RemoveEmptyTables(in.text, TableThresholdPercent), 1)
    /\ UNCHANGED <<storeVars, flowVars, retry, chunker, appVars>>

----------------------------------------------------------------------------
(* The chunkers.  RecursiveCharacterTextSplitter and                        *)
(* MarkdownHeaderTextSplitter are the library's; they are modelled as the   *)
(* library documents them, with the defaults the repository leaves in      *)
(* place (keep_separator=True, strip_whitespace=True, strip_headers=True).  *)
(* Lengths are numbers of tokens of the gpt2 encoding.  *)

\* DEFAULT_CHUNK_SIZE, DEFAULT_CHUNK_OVERLAP
DefaultChunkSize == 1000
DefaultChunkOverlap == 150

\* DEFAULT_SEPARATORS, and the separators the library uses by default
DefaultSeparators == << <<"\n", "\n">>, <<"\n">>, <<" ">>, <<>> >>

\* the strategies ChunkerFactory.create knows
Chunkers == {"markdown", "recursive"}

\* a factory that falls back to the default strategy
CreateOrDefault(strategy) ==
    [raised |-> None,
     made |-> IF strategy \in Chunkers THEN strategy ELSE "recursive"]

\* ChunkerFactory.create: the exception raised, or the chunker class made
ChunkerFactoryCreate(strategy) ==
    IF strategy \notin Chunkers
    THEN [raised |-> Some("ValueError"), made |-> "none"]
    ELSE [raised |-> None, made |-> strategy]

\* the character classes of the gpt2 pattern: letter, number, whitespace,
\* other
CharClass(c) ==
    IF c \in Whitespace THEN "space"
    ELSE IF c \in Letters THEN "letter"
    ELSE IF c \in Digits THEN "number"
    ELSE "other"

\* length of the longest prefix of text whose characters are of one class
RECURSIVE ClassRun(_, _)
ClassRun(text, class) ==
    IF Len(text) = 0 \/ CharClass(Head(text)) # class THEN 0
    ELSE 1 + ClassRun(Tail(text), class)

\* length of the piece the gpt2 pattern
\*   ' ?\p{L}+| ?\p{N}+| ?[^\s\p{L}\p{N}]+|\s+(?!\S)|\s+'
\* matches at the head of a text that is not empty: a run of letters, of
\* digits or of other characters with one space before it, or a run of
\* whitespace, which leaves its last character to the piece that follows
\* (the alternatives for 's, 't, ... need an apostrophe)
PieceLen(text) ==
    LET led == Len(text) > 1 /\ text[1] = " "
                   /\ CharClass(text[2]) # "space"
        word == IF led THEN Tail(text) ELSE text
        spaces == ClassRun(text, "space")
    IN  IF led \/ CharClass(text[1]) # "space"
        THEN (IF led THEN 1 ELSE 0) + ClassRun(word, CharClass(word[1]))
        ELSE IF spaces = Len(text) THEN spaces
        ELSE IF spaces > 1 THEN spaces - 1
        ELSE 1

\* pieces the gpt2 vocabulary holds as one token
Vocabulary ==
    { <<"a">>, <<"a", "a">>, <<" ", "a">>, <<"#">>, <<"#", "#">>,
      <<"#", "#", "#">>, <<" ", "#">>, <<"\n">>, <<"\n", "\n">> }

\* a run of spaces: the vocabulary merges no two spaces
Blank(piece) == \A i \in 1..Len(piece) : piece[i] = " "

\* the pieces whose number of tokens is given here
Encodable(piece) == Blank(piece) \/ piece \in Vocabulary

\* number of tokens the byte pair encoding makes of one piece
PieceTokens(piece) ==
    CASE Blank(piece) -> Len(piece)
      [] piece \in Vocabulary -> 1

\* the length function of from_tiktoken_encoder: len(enc.encode(text)) with
\* the gpt2 encoding
RECURSIVE TokenLen(_)
TokenLen(text) ==
    IF Len(text) = 0 THEN 0
    ELSE PieceTokens(Take(text, PieceLen(text)))
            + TokenLen(Drop(text, PieceLen(text)))

\* the sum of the lengths of the pieces of a chunk in the making (total)
RECURSIVE TotalLen(_)
TotalLen(pieces) ==
    IF Len(pieces) = 0 THEN 0
    ELSE TokenLen(Head(pieces)) + TotalLen(Tail(pieces))

\* position of the first occurrence of pat (not empty) in text, or 0
FindFirst(text, pat) ==
    LET at == {i \in 1..(Len(text) - Len(pat) + 1) :
                  SubSeq(text, i, i + Len(pat) - 1) = pat}
    IN  IF at = {} THEN 0 ELSE CHOOSE i \in at : \A j \in at : i <= j

\* text.split(sep) for a separator of any length
RECURSIVE SplitOn(_, _)
SplitOn(text, sep) ==
    LET i == FindFirst(text, sep)
    IN  IF i = 0 THEN <<text>>
        ELSE <<SubSeq(text, 1, i - 1)>>
                \o SplitOn(Drop(text, i + Len(sep) - 1), sep)

\* _split_text_with_regex with keep_separator=True: every piece after the
\* first starts with the separator; empty pieces are left out; the empty
\* separator splits into characters
SplitKeepingSeparator(text, sep) ==
    LET parts == SplitOn(text, sep)
        pieces == IF Len(sep) = 0
                  THEN [i \in 1..Len(text) |-> <<text[i]>>]
                  ELSE [i \in 1..Len(parts) |->
                           IF i = 1 THEN parts[1] ELSE sep \o parts[i]]
    IN  SelectSeq(pieces, LAMBDA p : Len(p) > 0)

\* _join_docs: the pieces joined and stripped, or nothing when that is empty
JoinDocs(pieces) ==
    IF Len(Strip(Join(pieces, <<>>))) = 0 THEN <<>>
    ELSE <<Strip(Join(pieces, <<>>))>>

\* the while loop of _merge_splits: pieces are popped from the front of the
\* current chunk until what is left fits the overlap and leaves room
RECURSIVE PopFront(_, _, _, _)
PopFront(current, len, size, overlap) ==
    LET total == TotalLen(current)
    IN  IF total > overlap \/ (total + len > size /\ total > 0)
        THEN PopFront(Tail(current), len, size, overlap)
        ELSE current

\* _merge_splits, with the empty separator keep_separator=True leaves
RECURSIVE MergeLoop(_, _, _, _)
MergeLoop(splits, current, size, overlap) ==
    LET d == Head(splits)
        total == TotalLen(current)
        full == total + TokenLen(d) > size
    IN  IF Len(splits) = 0 THEN JoinDocs(current)
        ELSE IF full /\ Len(current) > 0
        THEN JoinDocs(current)
                \o MergeLoop(Tail(splits),
                       Append(PopFront(current, TokenLen(d), size, overlap),
                              d),
                       size, overlap)
        ELSE MergeLoop(Tail(splits), Append(current, d), size, overlap)

MergeSplits(splits, size, overlap) == MergeLoop(splits, <<>>, size, overlap)

\* index of the separator _split_text picks: the first that is empty or
\* occurs in the text, the last one otherwise
PickSeparator(text, separators) ==
    LET fits == {i \in 1..Len(separators) :
                    Len(separators[i]) = 0
                        \/ FindFirst(text, separators[i]) > 0}
    IN  IF fits = {} THEN Len(separators)
        ELSE CHOOSE i \in fits : \A j \in fits : i <= j

\* RecursiveCharacterTextSplitter._split_text
RECURSIVE SplitText(_, _, _, _)
RECURSIVE SplitLoop(_, _, _, _, _)
SplitLoop(splits, good, rest, size, overlap) ==
    LET s == Head(splits)
        merged == IF Len(good) > 0 THEN MergeSplits(good, size, overlap)
                  ELSE <<>>
    IN  IF Len(splits) = 0 THEN merged
        ELSE IF TokenLen(s) < size
        THEN SplitLoop(Tail(splits), Append(good, s), rest, size, overlap)
        ELSE merged
                \o (IF Len(rest) = 0 THEN <<s>>
                    ELSE SplitText(s, rest, size, overlap))
                \o SplitLoop(Tail(splits), <<>>, rest, size, overlap)

SplitText(text, separators, size, overlap) ==
    LET i == PickSeparator(text, separators)
        found == Len(separators[i]) > 0
                    /\ FindFirst(text, separators[i]) > 0
        rest == IF found THEN SubSeq(separators, i + 1, Len(separators))
                ELSE <<>>
    IN  SplitLoop(SplitKeepingSeparator(text, separators[i]), <<>>, rest,
                  size, overlap)

\* RecursiveChunker.chunk_text: a document without metadata per chunk
NoHeaders == <<None, None, None>>

Document(content, metadata) == [content |-> content, metadata |-> metadata]

RecursiveChunkText(text, size, overlap) ==
    LET chunks == SplitText(text, DefaultSeparators, size, overlap)
    IN  [i \in 1..Len(chunks) |-> Document(chunks[i], NoHeaders)]

\* level of the header a stripped line opens, or 0: the longest of "###",
\* "##", "#" the line starts with and that ends the line or is followed by a
\* space
HeaderLevel(line) ==
    LET marks == {n \in 1..3 :
                    /\ StartsWith(line, [i \in 1..n |-> "#"])
                    /\ Len(line) = n \/ line[n + 1] = " "}
    IN  IF marks = {} THEN 0
        ELSE CHOOSE n \in marks : \A m \in marks : m <= n

\* the header path after a header of this level: shallower headers stay,
\* deeper ones are forgotten
HeaderPath(metadata, level, title) ==
    [i \in 1..3 |-> IF i < level THEN metadata[i]
                    ELSE IF i = level THEN Some(title)
                    ELSE None]

\* the line loop of MarkdownHeaderTextSplitter.split_text with
\* strip_headers=True: lines are stripped, a header line changes the header
\* path and is not content, a header or an empty line closes the content
\* gathered so far
RECURSIVE HeaderLoop(_, _, _)
HeaderLoop(lines, content, metadata) ==
    LET line == Strip(Head(lines))
        level == HeaderLevel(line)
        closed == IF Len(content) = 0 THEN <<>>
                  ELSE <<Document(Join(content, <<"\n">>), metadata)>>
    IN  IF Len(lines) = 0 THEN closed
        ELSE IF level > 0
        THEN closed \o HeaderLoop(Tail(lines), <<>>,
                          HeaderPath(metadata, level,
                                     Strip(Drop(line, level))))
        ELSE IF Len(line) > 0
        THEN HeaderLoop(Tail(lines), Append(content, line), metadata)
        ELSE closed \o HeaderLoop(Tail(lines), <<>>, metadata)

\* aggregate_lines_to_chunks: neighbours under the same header path are
\* joined by two spaces and a newline
RECURSIVE AggregateLines(_, _)
AggregateLines(docs, out) ==
    LET d == Head(docs)
        prev == out[Len(out)]
    IN  IF Len(docs) = 0 THEN out
        ELSE IF Len(out) > 0 /\ prev.metadata = d.metadata
        THEN AggregateLines(Tail(docs),
                 [out EXCEPT ![Len(out)] =
                     Document(prev.content \o <<" ", " ", "\n">> \o d.content,
                              d.metadata)])
        ELSE AggregateLines(Tail(docs), Append(out, d))

\* MarkdownHeaderTextSplitter.split_text
HeaderSplits(text) ==
    AggregateLines(HeaderLoop(SplitAt(text, "\n"), <<>>, NoHeaders), <<>>)

\* split_documents: every section is split again and its chunks carry the
\* section's header path
RECURSIVE SplitDocuments(_, _, _)
SplitDocuments(docs, size, overlap) ==
    LET d == Head(docs)
        chunks == SplitText(d.content, DefaultSeparators, size, overlap)
    IN  IF Len(docs) = 0 THEN <<>>
        ELSE [i \in 1..Len(chunks) |-> Document(chunks[i], d.metadata)]
                \o SplitDocuments(Tail(docs), size, overlap)

\* MarkdownChunker.chunk_text
MarkdownChunkText(text, size, overlap) ==
    SplitDocuments(HeaderSplits(text), size, overlap)

\* chunk_text of the chunker made for a strategy
ChunkTextOf(made, text, size, overlap) ==
    IF made = "markdown" THEN MarkdownChunkText(text, size, overlap)
    ELSE RecursiveChunkText(text, size, overlap)

(* Inputs of the chunkers *)

MaxChunkText == 5

ChunkChars == {"#", " ", "\n", "a"}

\* every piece of the text is one whose number of tokens is given
RECURSIVE Measurable(_)
Measurable(text) ==
    \/ Len(text) = 0
    \/ /\ Encodable(Take(text, PieceLen(text)))
       /\ Measurable(Drop(text, PieceLen(text)))

\* the texts handed to chunk_text: those of which every part is measurable
ChunkTexts ==
    {text \in UNION {[1..n -> ChunkChars] : n \in 0..MaxChunkText} :
        \A i \in 1..Len(text) : \A j \in i..Len(text) :
            Measurable(SubSeq(text, i, j))}

\* strategy names a caller may pass
StrategyArgs == {"markdown", "recursive", "semantic", ""}

\* chunk_size and chunk_overlap: the defaults, or keyword arguments
SizeArgs == {[size |-> DefaultChunkSize, overlap |-> DefaultChunkOverlap],
             [size |-> 3, overlap |-> 1]}

\* what is known of the chunker in use
Chunking(op, strategy, created, size, overlap, text, chunks, constructed) ==
    [op |-> op, strategy |-> strategy, raised |-> created.raised,
     made |-> created.made, size |-> size, overlap |-> overlap,
     text |-> text, chunks |-> chunks, constructed |-> constructed]

NoChunking ==
    Chunking("none", "recursive", [raised |-> None, made |-> "none"],
             DefaultChunkSize, DefaultChunkOverlap, <<>>, <<>>, FALSE)

\* ChunkerFactory.create(strategy, chunk_size=..., chunk_overlap=...)
ChunkerCreate ==
    /\ chunker = NoChunking
    /\ \E strategy \in StrategyArgs, args \in SizeArgs :
          chunker' = Chunking("create", strategy,
                              ChunkerFactoryCreate(strategy), args.size,
                              args.overlap, <<>>, <<>>, FALSE)
    /\ UNCHANGED <<storeVars, flowVars, retry, cleaner, appVars>>

\* chunk_text of the chunker that was made
ChunkText ==
    /\ chunker.op \in {"create", "construct"}
    /\ chunker.made # "none"
    /\ \E text \in ChunkTexts :
          chunker' = [chunker EXCEPT
                         !.op = "chunk_text",
                         !.text = text,
                         !.chunks = ChunkTextOf(chunker.made, text,
                                                chunker.size,
                                                chunker.overlap)]
    /\ UNCHANGED <<storeVars, flowVars, retry, cleaner, appVars>>

\* the chunker record of a constructor that ended with exception c.raised
ConstructFailed(strategy, c) ==
    Chunking("construct", strategy, [raised |-> c.raised, made |-> "none"],
             DefaultChunkSize, DefaultChunkOverlap, <<>>, <<>>, FALSE)

\* the chunker record of a constructor by what _ensure_collection has done
\* in the step just taken: still inside it, left by an exception, or returned
Constructing(strategy, made, inside, outcome) ==
    IF inside
    THEN Chunking("constructing", strategy, [raised |-> None, made |-> made],
                  DefaultChunkSize, DefaultChunkOverlap, <<>>, <<>>, FALSE)
    ELSE IF outcome.raised # None
    THEN ConstructFailed(strategy, outcome)
    ELSE Chunking("construct", strategy, [raised |-> None, made |-> made],
                  DefaultChunkSize, DefaultChunkOverlap, <<>>, <<>>, TRUE)

\* IngestionService.__init__(chunking_strategy=...): the chunker is made
\* first; then the embedding key is looked up; then _ensure_collection is
\* called and tests whether the collection exists.  A failure at any step
\* leaves the service unconstructed.
IngestionServiceInit ==
    /\ chunker = NoChunking
    /\ \E strategy \in StrategyArgs, key \in BOOLEAN :
          LET created == ChunkerFactoryCreate(strategy)
              missing == [raised |-> Some("ValueError"), made |-> "none"]
          IN  IF created.raised # None
              THEN /\ chunker' = ConstructFailed(strategy, created)
                   /\ UNCHANGED storeVars
              ELSE IF ~key
              THEN /\ chunker' = ConstructFailed(strategy, missing)
                   /\ UNCHANGED storeVars
              ELSE /\ PipelineCollectionExists
                   /\ chunker' = Constructing(strategy, created.made,
                                              ensuring'.pipeline # "idle",
                                              last')
    /\ UNCHANGED <<flowVars, retry, cleaner, appVars>>

\* the rest of _ensure_collection in IngestionService.__init__: the
\* collection is created, then indexed on year
IngestionServiceEnsure ==
    /\ chunker.op = "constructing"
    /\ PipelineCreateCollection \/ PipelineCreatePayloadIndex
    /\ chunker' = Constructing(chunker.strategy, chunker.made,
                               ensuring'.pipeline # "idle", last')
    /\ UNCHANGED <<flowVars, retry, cleaner, appVars>>

----------------------------------------------------------------------------
(* The nodes of the workflow, each executed on its own on a given state *)

\* the passages lists a state holds or advanced_search returns
DocLists == {<<>>, <<"A">>, <<"B", "A">>}

\* a state with one more key, or without it
OptionalKey(st, key, values) ==
    {st} \cup {SetKey(st, key, value) : value \in values}

\* the states a node is executed on: question, documents and answer are
\* set; rewritten_question and years may be missing
NodeStates ==
    UNION {UNION {OptionalKey(withQuery, "years", {None, Some(<<2022>>)}) :
                    withQuery \in OptionalKey(st, "rewritten_question",
                                              {"", "s1"})} :
             st \in [question : Questions, documents : DocLists,
                     answer : {<<>>, <<"a">>}]}

\* what the collaborators of a node do in one execution
RewriteOutcomes(st) ==
    {[kind |-> "no_prompt"], [kind |-> "raises"]}
        \cup {[kind |-> kind, query |-> RewriteOf(st.question),
               years |-> years] :
                 kind \in {"returns", "breaks_after_query",
                           "breaks_after_years"},
                 years \in ExtractedYears}
RetrieveOutcomes ==
    {[kind |-> "raises"]} \cup {[kind |-> "returns", docs |-> docs] :
                                   docs \in DocLists}
GenerateOutcomes ==
    {[kind |-> "no_prompt"], [kind |-> "raises"]}
        \cup {[kind |-> "returns", text |-> text] : text \in GenOutputs}

\* one execution of a node: the state passed in, what the collaborators
\* did, the state afterwards, the calls issued, the prompt sent to the
\* generation provider and the exception execute ended with
Execution(op, st, k, outcome, out, issued, prompt, exc) ==
    [op |-> op, input |-> st, k |-> k, outcome |-> outcome, state |-> out,
     calls |-> issued, prompt |-> prompt, raised |-> exc]

NoPrompt == [template |-> "none", context |-> <<>>, question |-> ""]

NoExecution ==
    Execution("none", NoState, 0, [kind |-> "none"], NoState, <<>>,
              NoPrompt, None)

\* RewriteNode.execute
RewriteExecute ==
    /\ nodeRun.op = "none"
    /\ \E st \in NodeStates :
       \E outcome \in RewriteOutcomes(st) :
          LET call(failed) ==
                  <<Call("structured", st.question, None, 0, <<>>, failed)>>
              done(out, issued, exc) ==
                  Execution("rewrite", st, 0, outcome, out, issued,
                            NoPrompt, exc)
          IN  nodeRun' =
                CASE outcome.kind = "no_prompt" ->
                        done(st, <<>>, Some("PromptException"))
                  [] outcome.kind = "raises" ->
                        done(RewriteFallback(st), call(TRUE), None)
                  [] outcome.kind = "returns" ->
                        done(RewriteWritten(st, outcome.query,
                                            outcome.years),
                             call(FALSE), None)
                  [] outcome.kind = "breaks_after_query" ->
                        done(RewriteFallback(
                                SetKey(st, "rewritten_question",
                                       outcome.query)),
                             call(TRUE), None)
                  [] outcome.kind = "breaks_after_years" ->
                        done(RewriteFallback(
                                RewriteWritten(st, outcome.query,
                                               outcome.years)),
                             call(TRUE), None)
    /\ UNCHANGED <<storeVars, flowVars, unitVars, graph, app, registry>>

\* RetrieveNode.execute
RetrieveExecute ==
    /\ nodeRun.op = "none"
    /\ \E st \in NodeStates, k \in KArgs, outcome \in RetrieveOutcomes :
          LET call(docs, failed) ==
                  <<Call("advanced_search", RetrieveQuery(st),
                         Get(st, "years", None), k, docs, failed)>>
          IN  nodeRun' =
                IF outcome.kind = "raises"
                THEN Execution("retrieve", st, k, outcome, st,
                               call(<<>>, TRUE), NoPrompt,
                               Some("VectorStoreException"))
                ELSE Execution("retrieve", st, k, outcome,
                               RetrieveWritten(st, outcome.docs),
                               call(outcome.docs, FALSE), NoPrompt, None)
    /\ UNCHANGED <<storeVars, flowVars, unitVars, graph, app, registry>>

\* GenerateNode.execute
GenerateExecute ==
    /\ nodeRun.op = "none"
    /\ \E st \in NodeStates, outcome \in GenerateOutcomes :
          nodeRun' =
            CASE outcome.kind = "no_prompt" ->
                    Execution("generate", st, 0, outcome, st, <<>>,
                              NoPrompt, Some("PromptException"))
              [] outcome.kind = "raises" ->
                    Execution("generate", st, 0, outcome, st,
                              GenerateCall(st, TRUE), GeneratePrompt(st),
                              Some("LLMException"))
              [] outcome.kind = "returns" ->
                    Execution("generate", st, 0, outcome,
                              GenerateWritten(st, outcome.text),
                              GenerateCall(st, FALSE), GeneratePrompt(st),
                              None)
    /\ UNCHANGED <<storeVars, flowVars, unitVars, graph, app, registry>>

----------------------------------------------------------------------------
(* The workflow object and the service built around it *)

\* number of build() and run() calls on the RAGGraph in one behaviour
MaxGraphCalls == 5

\* calling a Python function with keyword arguments only: TypeError for a
\* keyword it does not take or a required parameter left out
BindKeywords(params, required, keywords) ==
    IF keywords \ params # {} \/ required \ keywords # {}
    THEN Some("TypeError") ELSE None

\* the parameters of RAGGraph.__init__, and those without a default
RAGGraphParams == {"llm", "vector_store", "prompt_manager", "rag_k"}
RAGGraphRequired == {"llm", "vector_store", "prompt_manager"}

\* the methods of RAGGraph
RAGGraphMethods == {"build", "run"}

\* the keywords RAGService._build_graph passes to RAGGraph(...)
BuildGraphKeywords == {"rewrite_node", "retrieve_node", "generate_node"}

\* RAGService._build_graph: the exception it ends with, if any: the call
\* RAGGraph(...) comes first, then the attribute lookup rag_graph.compile
BuildGraphRaises ==
    IF BindKeywords(RAGGraphParams, RAGGraphRequired, BuildGraphKeywords)
          # None
    THEN BindKeywords(RAGGraphParams, RAGGraphRequired, BuildGraphKeywords)
    ELSE IF "compile" \notin RAGGraphMethods THEN Some("AttributeError")
    ELSE None

\* RAGService.__init__: self.graph = self._build_graph() is its only step
\* that can fail
RAGServiceRaises == BuildGraphRaises

\* the RAGGraph object (compiled = 0 stands for _compiled = None, any other
\* number names one compiled workflow object), the calls made on it with the
\* object each returned or ran, and the outcome of RAGService(...)
GraphObject(made, k, compiled, compiles, ops, used, service, exc) ==
    [made |-> made, rag_k |-> k, compiled |-> compiled,
     compiles |-> compiles, ops |-> ops, used |-> used,
     service |-> service, raised |-> exc]

NoGraph == GraphObject(FALSE, 0, 0, 0, <<>>, <<>>, "none", None)

\* a build() that compiles on every call
BuildAnew(g) ==
    [g EXCEPT !.compiled = g.compiles + 1, !.compiles = g.compiles + 1]

\* RAGGraph.build: the cached object when there is one, otherwise a newly
\* compiled workflow, which is cached
Build(g) ==
    IF g.compiled # 0 THEN g
    ELSE [g EXCEPT !.compiled = g.compiles + 1, !.compiles = g.compiles + 1]

\* RAGGraph(llm=..., vector_store=..., prompt_manager=..., rag_k=...)
RAGGraphInit ==
    /\ ~graph.made
    /\ \E k \in KArgs :
          graph' = [graph EXCEPT !.made = TRUE, !.rag_k = k]
    /\ UNCHANGED <<storeVars, flowVars, unitVars, app, registry, nodeRun>>

\* RAGGraph.build()
GraphBuild ==
    /\ graph.made
    /\ Len(graph.ops) < MaxGraphCalls
    /\ graph' = [Build(graph) EXCEPT
                    !.ops = Append(graph.ops, "build"),
                    !.used = Append(graph.used, Build(graph).compiled)]
    /\ UNCHANGED <<storeVars, flowVars, unitVars, app, registry, nodeRun>>

\* RAGGraph.run(question): build(), then the workflow of Spec is invoked on
\* the object build() returned; the invocation changes nothing of the
\* RAGGraph
GraphRun ==
    /\ graph.made
    /\ Len(graph.ops) < MaxGraphCalls
    /\ graph' = [Build(graph) EXCEPT
                    !.ops = Append(graph.ops, "run"),
                    !.used = Append(graph.used, Build(graph).compiled)]
    /\ UNCHANGED <<storeVars, flowVars, unitVars, app, registry, nodeRun>>

\* RAGService(llm=..., vector_store=..., prompt_manager=..., rag_k=...)
RAGServiceInit ==
    /\ graph.service = "none"
    /\ graph' = [graph EXCEPT
                    !.service = IF RAGServiceRaises = None
                                THEN "constructed" ELSE "failed",
                    !.raised = RAGServiceRaises]
    /\ UNCHANGED <<storeVars, flowVars, unitVars, app, registry, nodeRun>>

----------------------------------------------------------------------------
(* The application *)

\* number of ask requests sent to the application in one behaviour
MaxAppRequests == 3

\* the services lifespan creates before the vector store, in order, with the
\* exception each constructor raises when it cannot initialise
EarlyServices == {"llm", "dense", "sparse"}
ServiceFailure(service) ==
    IF service = "llm" THEN "LLMException"
    ELSE IF service = "prompts" THEN "PromptException"
    ELSE "EmbeddingException"

\* the attributes lifespan sets on app.state before it yields
LifespanState ==
    [settings |-> "settings", llm_service |-> "llm",
     vector_store |-> "store", rag_service |-> "rag"]

\* app.state of a new application
EmptyState == [name \in {} |-> "none"]

\* hasattr(state, name)
HasAttr(state, name) == name \in DOMAIN state

\* get_rag_service: 503 without a container attribute on app.state or with a
\* container whose rag_service is not set, otherwise that service
GetRagService(state) ==
    IF ~HasAttr(state, "container")
    THEN [status |-> 503, detail |-> "Service container not initialized",
          rag |-> "none"]
    ELSE IF state.container.rag_service = "none"
    THEN [status |-> 503, detail |-> "RAG service not available",
          rag |-> "none"]
    ELSE [status |-> 200, detail |-> "", rag |-> state.container.rag_service]

\* the application: whether lifespan ran and how it ended, the service that
\* could not be initialised, app.state, and the ask requests sent with what
\* became of each
Application(phase, broken, exc, state, requests) ==
    [phase |-> phase, broken |-> broken, raised |-> exc, state |-> state,
     requests |-> requests]

NoApp == Application("down", "none", None, EmptyState, <<>>)

\* the application after QdrantVectorStore(...) in lifespan has taken a
\* step: still inside _ensure_collection, or the constructor has ended and
\* the rest of the startup runs to the yield or to the first constructor
\* that raises
LifespanAfterStore(broken, inside, outcome) ==
    IF inside
    THEN Application("starting", broken, None, EmptyState, <<>>)
    ELSE IF outcome.raised # None
    THEN Application("failed", "store", outcome.raised, EmptyState, <<>>)
    ELSE IF broken = "prompts"
    THEN Application("failed", broken, Some(ServiceFailure(broken)),
                     EmptyState, <<>>)
    ELSE IF RAGServiceRaises # None
    THEN Application("failed", "none", RAGServiceRaises, EmptyState, <<>>)
    ELSE Application("serving", "none", None, LifespanState, <<>>)

\* lifespan up to its yield: the services are created in order; the first
\* constructor that raises ends the startup, and the server exits.  The
\* step ends where QdrantVectorStore has looked the collection up.
Lifespan ==
    /\ app.phase = "down"
    /\ \E broken \in {"none", "prompts"} \cup EarlyServices :
          IF broken \in EarlyServices
          THEN /\ app' = Application("failed", broken,
                                     Some(ServiceFailure(broken)),
                                     EmptyState, <<>>)
               /\ UNCHANGED storeVars
          ELSE /\ StoreListCollections
               /\ app' = LifespanAfterStore(broken,
                                            ensuring'.store # "idle", last')
    /\ UNCHANGED <<flowVars, unitVars, graph, registry, nodeRun>>

\* lifespan from the create_collection call of the vector store on
LifespanCreate ==
    /\ app.phase = "starting"
    /\ StoreCreateCollection
    /\ app' = LifespanAfterStore(app.broken, FALSE, last')
    /\ UNCHANGED <<flowVars, unitVars, graph, registry, nodeRun>>

\* POST /api/v1/ask with a well-formed body, sent after the startup: a
\* server that exited refuses the connection; a serving one resolves
\* get_rag_service and, given a service, awaits its ask (the workflow of
\* Spec)
AskRequest ==
    /\ app.phase \in {"failed", "serving"}
    /\ Len(app.requests) < MaxAppRequests
    /\ \E question \in Questions :
          LET provided == GetRagService(app.state)
              reply == IF app.phase # "serving" THEN "refused"
                       ELSE IF provided.status = 503 THEN "503"
                       ELSE "dispatched"
          IN  app' = [app EXCEPT !.requests =
                         Append(@, [question |-> question, reply |-> reply,
                                    rag |-> IF reply = "dispatched"
                                            THEN provided.rag ELSE "none"])]
    /\ UNCHANGED <<storeVars, flowVars, unitVars, graph, registry, nodeRun>>

(* Registration of chunking strategies *)

MaxRegisterCalls == 2

\* names registered: new ones and a built-in one
RegisterNames == {"semantic", "sentence", "markdown"}

\* chunker classes handed to register
RegisterClasses == {"SemanticChunker", "SentenceChunker"}

\* the attributes of the class ChunkerFactory: its two methods
FactoryAttributes == {"create", "register"}

\* ChunkerFactory.register: cls._chunkers[name] = chunker_class looks the
\* attribute _chunkers up on the class before it stores anything
ChunkerFactoryRegister(name, class) ==
    IF "_chunkers" \in FactoryAttributes
    THEN [raised |-> None, stored |-> TRUE]
    ELSE [raised |-> Some("AttributeError"), stored |-> FALSE]

\* the register calls made so far, and the last create made after them
Registry(registered, created) ==
    [calls |-> registered, created |-> created]

NoCreate ==
    [op |-> "none", strategy |-> "", seen |-> 0, raised |-> None,
     made |-> "none"]

NoRegistry == Registry(<<>>, NoCreate)

\* ChunkerFactory.register(name, chunker_class)
ChunkerRegister ==
    /\ Len(registry.calls) < MaxRegisterCalls
    /\ \E name \in RegisterNames, class \in RegisterClasses :
          LET done == ChunkerFactoryRegister(name, class)
          IN  registry' = [registry EXCEPT
                  !.calls = Append(@, [name |-> name, class |-> class,
                                       raised |-> done.raised,
                                       stored |-> done.stored])]
    /\ UNCHANGED <<storeVars, flowVars, unitVars, graph, app, nodeRun>>

\* ChunkerFactory.create(strategy) after the register calls: create looks
\* the strategy up in the dictionary it builds itself
RegisteredCreate ==
    /\ \E strategy \in StrategyArgs \cup RegisterNames :
          LET created == ChunkerFactoryCreate(strategy)
          IN  registry' = [registry EXCEPT
                  !.created = [op |-> "create", strategy |-> strategy,
                               seen |-> Len(registry.calls),
                               raised |-> created.raised,
                               made |-> created.made]]
    /\ UNCHANGED <<storeVars, flowVars, unitVars, graph, app, nodeRun>>


----------------------------------------------------------------------------
(* Initial states and specifications *)

\* no provider call, cleaner or chunker was used
UnitIdle ==
    /\ retry = NoRetry
    /\ cleaner = NoCleaning
    /\ chunker = NoChunking
    /\ graph = NoGraph
    /\ app = NoApp
    /\ registry = NoRegistry
    /\ nodeRun = NoExecution

Init ==
    /\ probeLen = 768
    /\ coll = [PipelineEnsured(AbsentCollection, probeLen)
                  EXCEPT !.points = IngestedPoints(SampleDocs)]
    /\ totalAdded = Len(SampleDocs)
    /\ nextUuid = Len(SampleDocs)
    /\ acked = Payloads(SampleDocs)
    /\ createCalls = 1
    /\ ensuring = NotEnsuring
    /\ last = NoOutcome
    /\ FlowIdle
    /\ UnitIdle

Next ==
    \E r \in Reqs :
        \/ Ask(r)
        \/ Rewrite(r)
        \/ Retrieve(r)
        \/ Generate(r)
        \/ AskReturn(r)

Spec == Init /\ [][Next]_vars

----------------------------------------------------------------------------
(* The store on its own *)

InitStore ==
    /\ coll = AbsentCollection
    /\ createCalls = 0
    /\ ensuring = NotEnsuring
    /\ totalAdded = 0
    /\ nextUuid = 0
    /\ probeLen \in ProbeLens
    /\ acked = {}
    /\ last = NoOutcome
    /\ FlowIdle
    /\ UnitIdle

NextStore ==
    \/ StoreInit
    \/ StoreCreate
    \/ PipelineInit
    \/ PipelineCreate
    \/ PipelineIndex
    \/ AddDocuments
    \/ IndexChunks

SpecStore == InitStore /\ [][NextStore]_vars

----------------------------------------------------------------------------
(* Queries and adds against an ingested collection *)

InitSearch ==
    /\ probeLen = 768
    /\ \E docs \in InjSeqs(Docs) :
        /\ coll = [PipelineEnsured(AbsentCollection, probeLen)
                      EXCEPT !.points = IngestedPoints(docs)]
        /\ totalAdded = Len(docs)
        /\ nextUuid = Len(docs)
        /\ acked = Payloads(docs)
    /\ createCalls = 1
    /\ ensuring = NotEnsuring
    /\ last = NoOutcome
    /\ FlowIdle
    /\ UnitIdle

NextSearch ==
    \/ AdvancedSearch
    \/ Search
    \/ AddDocuments

SpecSearch == InitSearch /\ [][NextSearch]_vars

----------------------------------------------------------------------------
(* One provider call with its retries *)

InitIdle ==
    /\ coll = AbsentCollection
    /\ createCalls = 0
    /\ ensuring = NotEnsuring
    /\ totalAdded = 0
    /\ nextUuid = 0
    /\ probeLen = 768
    /\ acked = {}
    /\ last = NoOutcome
    /\ FlowIdle
    /\ UnitIdle

NextRetry ==
    \/ RetryCall
    \/ AttemptEnds
    \/ Backoff

SpecRetry == InitIdle /\ [][NextRetry]_vars

----------------------------------------------------------------------------
(* Uses of the text cleaner *)

NextClean ==
    \/ CleanTextCall
    \/ CleanTextAgain
    \/ RemoveEmptyTablesCall

SpecClean == InitIdle /\ [][NextClean]_vars

----------------------------------------------------------------------------
(* Uses of the chunkers *)

NextChunk ==
    \/ ChunkerCreate
    \/ ChunkText
    \/ IngestionServiceInit
    \/ IngestionServiceEnsure

SpecChunk == InitIdle /\ [][NextChunk]_vars

----------------------------------------------------------------------------
(* Registration of chunking strategies and the creations that follow *)

NextRegistry ==
    \/ ChunkerRegister
    \/ RegisteredCreate

SpecRegistry == InitIdle /\ [][NextRegistry]_vars

----------------------------------------------------------------------------
(* Uses of the workflow object and construction of the service *)

NextGraph ==
    \/ RAGGraphInit
    \/ GraphBuild
    \/ GraphRun
    \/ RAGServiceInit

SpecGraph == InitIdle /\ [][NextGraph]_vars

----------------------------------------------------------------------------
(* Startup of the application and requests to it *)

NextApp ==
    \/ Lifespan
    \/ LifespanCreate
    \/ AskRequest

SpecApp == InitIdle /\ [][NextApp]_vars

----------------------------------------------------------------------------
(* Executions of single nodes *)

NextNodes ==
    \/ RewriteExecute
    \/ RetrieveExecute
    \/ GenerateExecute

SpecNodes == InitIdle /\ [][NextNodes]_vars

----------------------------------------------------------------------------
(* Properties of the workflow, checked under Spec *)

StageOrder == <<"rewrite", "retrieve", "generate">>

\* the calls of a kind a request has issued
CallsOf(r, fn) == {i \in 1..Len(calls[r]) : calls[r][i].fn = fn}

\* C1: every request runs rewrite, then retrieve, then generate, each exactly
\* once and in this order: the stages run so far are always a prefix of that
\* order, a request whose workflow ended ran all three, and after generate no
\* stage can run again.
C1_FixedStageOrder ==
    \A r \in Reqs :
        /\ \E n \in 0..Len(StageOrder) : trace[r] = SubSeq(StageOrder, 1, n)
        /\ pc[r] \in {"END", "done"} =>
              /\ trace[r] = StageOrder
              /\ ~ENABLED (Rewrite(r) \/ Retrieve(r) \/ Generate(r))

C1_Witness ==
    \E r \in Reqs : pc[r] = "done" /\ trace[r] = StageOrder

\* C2: when the structured-extraction call of RewriteNode.execute fails,
\* execute does not raise, and the state it returns has rewritten_question
\* equal to the original question and years None.
C2_RewriteFallback ==
    \A r \in Reqs :
        (\E i \in CallsOf(r, "structured") : calls[r][i].failed) =>
            /\ gstate[r].rewritten_question = asked[r]
            /\ gstate[r].years = None
            /\ "rewrite" \in Range(trace[r])
            /\ pc[r] = "failed" => trace[r] # <<"rewrite">>

C2_Witness ==
    \E r \in Reqs :
        /\ pc[r] = "retrieve"
        /\ Len(calls[r]) > 0
        /\ calls[r][1].fn = "structured" /\ calls[r][1].failed
        /\ gstate[r].rewritten_question = asked[r]

\* C3: a failure of advanced_search in RetrieveNode.execute or of generate in
\* GenerateNode.execute is not recovered: the request ends in an error with no
\* RAGResponse, the failed call is the last call of the request, no stage or
\* response step can follow, and generate never runs after a failed retrieval.
C3_FailuresNotRecovered ==
    \A r \in Reqs :
        \A i \in CallsOf(r, "advanced_search") \cup CallsOf(r, "generate") :
            calls[r][i].failed =>
                /\ pc[r] = "failed"
                /\ raised[r] # None
                /\ response[r] = None
                /\ i = Len(calls[r])
                /\ calls[r][i].fn = "advanced_search" =>
                      "generate" \notin Range(trace[r])
                /\ ~ENABLED (Retrieve(r) \/ Generate(r) \/ AskReturn(r))

C3_Witness ==
    \E r1, r2 \in Reqs :
        /\ pc[r1] = "failed" /\ pc[r2] = "failed"
        /\ Len(calls[r1]) > 0 /\ Len(calls[r2]) > 0
        /\ calls[r1][Len(calls[r1])].fn = "advanced_search"
        /\ calls[r1][Len(calls[r1])].failed
        /\ calls[r2][Len(calls[r2])].fn = "generate"
        /\ calls[r2][Len(calls[r2])].failed

\* C4: under every interleaving of requests, each request works on its own
\* state: the state of request r holds r's question, the query, years and
\* documents r passes to the services are the ones r's own stages wrote, and
\* r's response is its own final state.
C4_RequestIsolation ==
    \A r \in Reqs :
        pc[r] # "idle" =>
            /\ gstate[r].question = asked[r]
            /\ gstate[r].rewritten_question
                  \in {"", asked[r], RewriteOf(asked[r])}
            /\ \A i \in CallsOf(r, "structured") \cup CallsOf(r, "generate") :
                  calls[r][i].query = asked[r]
            /\ \A i \in CallsOf(r, "advanced_search") :
                  /\ calls[r][i].query \in {asked[r], RewriteOf(asked[r])}
                  /\ pc[r] # "failed" =>
                        /\ calls[r][i].query = gstate[r].rewritten_question
                        /\ calls[r][i].years = gstate[r].years
            /\ \A i \in CallsOf(r, "generate") :
                  calls[r][i].docs = gstate[r].documents
            /\ response[r] # None => response[r][1] = ResponseOf(gstate[r])

C4_Witness ==
    \E r1, r2 \in Reqs :
        /\ asked[r1] = "q1" /\ asked[r2] = "q2"
        /\ pc[r1] = "done" /\ pc[r2] = "generate"
        /\ gstate[r1].rewritten_question = RewriteOf("q1")
        /\ gstate[r2].rewritten_question = RewriteOf("q2")

\* C12: the RAGResponse returned by ask is read from the final state of that
\* request only: answer is the state's answer, sources are the passages the
\* request's advanced_search call returned, in that order, rewritten_question
\* is the state's rewritten question, and years_extracted are the state's
\* years, the very value that call was given as its years argument.
C12_ResponseFromState ==
    \A r \in Reqs :
        response[r] # None =>
            /\ Cardinality(CallsOf(r, "advanced_search")) = 1
            /\ \A i \in CallsOf(r, "advanced_search") :
                  /\ response[r][1].sources = calls[r][i].docs
                  /\ response[r][1].years_extracted = calls[r][i].years
                  /\ response[r][1].rewritten_question = calls[r][i].query
            /\ response[r][1].answer = gstate[r].answer
            /\ response[r][1].sources = gstate[r].documents
            /\ response[r][1].rewritten_question
                  = gstate[r].rewritten_question
            /\ response[r][1].years_extracted = gstate[r].years

C12_Witness ==
    \E r \in Reqs :
        /\ pc[r] = "done"
        /\ response[r] # None
        /\ response[r][1].years_extracted = Some(<<2021, 2022>>)
        /\ response[r][1].sources = <<"B", "A">>
        /\ response[r][1].answer = <<"a">>

----------------------------------------------------------------------------
(* Properties of searching, checked under SpecSearch *)

SearchReturned(op) == last.op = op /\ last.raised = None

\* the candidate lists of the advanced_search whose outcome is in last
LastDense ==
    DenseCandidates(coll.points, last.query, BuildYearFilter(last.years),
                    2 * last.k, last.tie)

LastSparse ==
    SparseCandidates(coll.points, last.query, BuildYearFilter(last.years),
                     2 * last.k, last.tie)

\* C5: advanced_search with a non-empty years list returns only passages
\* whose payload year is one of the given years (a passage without a year is
\* never returned); with years None or empty no passage is excluded, so the
\* result has k entries, or all passages when the collection has fewer.
C5_YearFilter ==
    SearchReturned("advanced_search") =>
        IF last.years # None /\ Len(last.years[1]) > 0
        THEN \A i \in 1..Len(last.hits) :
                LET year == coll.points[last.hits[i]].year
                IN  year # None /\ year[1] \in Range(last.years[1])
        ELSE Len(last.hits) = Min(last.k, Cardinality(Ids(coll.points)))

C5_Witness ==
    /\ SearchReturned("advanced_search")
    /\ last.years = Some(<<2022>>)
    /\ Len(last.hits) > 0
    /\ Cardinality(Ids(coll.points)) <= last.k
    /\ Len(last.hits) < Cardinality(Ids(coll.points))

\* 1/(rank + constant) of a candidate in one list, as <<numerator,
\* denominator>>; zero when the list does not contain it
FusionTerm(list, id) ==
    IF id \in Range(list) THEN <<1, IndexOf(list, id) + RRFConst>>
    ELSE <<0, 1>>

\* the sum of the two terms of a candidate, as a fraction
FusionSum(dense, sparse, id) ==
    LET a == FusionTerm(dense, id)
        b == FusionTerm(sparse, id)
    IN  <<a[1] * b[2] + b[1] * a[2], a[2] * b[2]>>

FractionGeq(x, y) == x[1] * y[2] >= y[1] * x[2]

\* C6: advanced_search returns the contents of the top k candidates of the
\* Reciprocal Rank Fusion of the at most 2k dense and at most 2k sparse
\* candidates taken after the year filter: at most k entries, without
\* repetition, in non-increasing order of the sum of 1/(rank + constant), no
\* left-out candidate scoring higher than a returned one; for dense ranking
\* [A,B,C] and sparse ranking [B,C,A] the first result is B.
C6_RRFTopK ==
    SearchReturned("advanced_search") =>
        LET cands == Range(LastDense) \cup Range(LastSparse)
            h == last.hits
            sum(id) == FusionSum(LastDense, LastSparse, id)
        IN  /\ Len(LastDense) <= 2 * last.k
            /\ Len(LastSparse) <= 2 * last.k
            /\ Len(h) = Min(last.k, Cardinality(cands))
            /\ Range(h) \subseteq cands
            /\ Cardinality(Range(h)) = Len(h)
            /\ \A i, j \in 1..Len(h) :
                  i < j => FractionGeq(sum(h[i]), sum(h[j]))
            /\ \A c \in cands \ Range(h) :
                  \A i \in 1..Len(h) : FractionGeq(sum(h[i]), sum(c))
            /\ last.result = ContentsOf(coll.points, h)
            /\ ( /\ ContentsOf(coll.points, LastDense) = <<"A", "B", "C">>
                 /\ ContentsOf(coll.points, LastSparse) = <<"B", "C", "A">> )
               => last.result[1] = "B"

C6_Witness ==
    /\ SearchReturned("advanced_search")
    /\ ContentsOf(coll.points, LastDense) = <<"A", "B", "C">>
    /\ ContentsOf(coll.points, LastSparse) = <<"B", "C", "A">>
    /\ last.result = <<"B", "A">>

\* C11: once add_documents (or the pipeline's upload) has returned without
\* error, every passage of that batch is visible to every search issued
\* afterwards: a search or an unfiltered advanced_search that returns and
\* has room for every point of the collection returns each acknowledged
\* passage.
C11_AckedVisible ==
    ( /\ \/ SearchReturned("search")
         \/ SearchReturned("advanced_search") /\ last.years = None
      /\ Cardinality(Ids(coll.points)) <= last.k ) =>
            \A p \in acked : p.content \in Range(last.result)

\* C10: every failure inside add_documents, search or advanced_search, be it
\* of the dense embedder, the sparse embedder or the storage client, reaches
\* the caller as VectorStoreException.
C10_SingleFailureKind ==
    (last.op \in {"add", "search", "advanced_search"}
        /\ last.cause # "none") =>
            last.raised = Some("VectorStoreException")

C10_Witness ==
    /\ last.op = "search"
    /\ last.cause = "ResourceExhausted"
    /\ last.raised = Some("VectorStoreException")

----------------------------------------------------------------------------
(* Properties of the collection, checked under SpecStore *)

\* C7: after any sequence of add_documents calls every passage added is a
\* point of its own: the collection has as many points as passages were added.
C7_EveryPassageOwnPoint ==
    Cardinality(Ids(coll.points)) = totalAdded

\* C8: initialising against a collection that exists issues no create call
\* and leaves points and configuration unchanged; the collection is created
\* at most once.
C8_EnsureIdempotent ==
    [][ /\ createCalls' <= 1
        /\ ( /\ StoreInit \/ StoreCreate \/ PipelineInit \/ PipelineCreate
             /\ coll.exists ) =>
                (coll' = coll /\ createCalls' = createCalls) ]_vars

C8_Witness ==
    /\ last.op = "init" /\ last.raised = None
    /\ createCalls = 1
    /\ Cardinality(Ids(coll.points)) = 2

\* C9: a collection created at initialisation has, once the initialisation
\* has ended, a dense vector space of the length of the dense provider's
\* output for a probe string, a sparse vector space and an index on the year
\* payload field.
C9_CreatedFromProbe ==
    (coll.exists /\ ensuring = NotEnsuring) =>
        /\ coll.dense_size = probeLen
        /\ coll.sparse
        /\ coll.year_index

----------------------------------------------------------------------------
(* Properties of the retried provider calls, checked under SpecRetry *)

Ended == retry.phase \in {"returned", "raised", "fellback"}

\* the transient failure class of C13 to C15: rate limiting, service
\* unavailable, timeout, connection error
TransientClass ==
    {"ResourceExhausted", "RateLimitError", "ServiceUnavailable",
     "TimeoutError", "ConnectionError"}

\* C13: a generate or dense embed call that keeps failing transiently is
\* retried only inside the window: no attempt starts once the window of five
\* seconds has elapsed since the call began.
C13_NoAttemptAfterWindow ==
    Decorated(retry.site) =>
        \A i \in 1..Len(retry.starts) : retry.starts[i] < StopAfterTicks

\* C14: at every external call site a single transient failure is retried
\* rather than failing the operation at once: a call that ended after one
\* attempt which failed transiently had used up its window.
C14_TransientRetried ==
    ( /\ Ended
      /\ Len(retry.starts) = 1
      /\ Len(retry.causes) = 1
      /\ retry.causes[1] \in TransientClass ) =>
            StopAfterDelay(retry.elapsed)

\* C15: a non-transient failure of the generation provider or of the dense
\* embedding provider is raised to the caller by the attempt it occurs in, as
\* LLMException or EmbeddingException: no attempt and no backoff wait follows
\* it, and when it occurs in the first attempt the call made exactly one
\* attempt and never slept.
C15_NonTransientNotRetried ==
    Decorated(retry.site) =>
        \A i \in 1..Len(retry.causes) :
            retry.causes[i] \notin TransientClass =>
                /\ retry.phase = "raised"
                /\ i = Len(retry.causes)
                /\ Len(retry.starts) = i
                /\ retry.sleeps = i - 1
                /\ retry.raised = Some(IF retry.site = "gemini_embed"
                                       THEN "EmbeddingException"
                                       ELSE "LLMException")

C15_Witness ==
    /\ retry.site = "gemini_generate"
    /\ retry.causes = <<"ValueError">>
    /\ retry.phase = "raised"
    /\ retry.raised = Some("LLMException")
    /\ retry.sleeps = 0

\* C16: a caller of generate or of the dense embed only ever sees the failure
\* kind of that provider role: whenever the call raises, also after the
\* retries are exhausted, it raises LLMException, respectively
\* EmbeddingException.
C16_OnlyRoleFailureKind ==
    (Decorated(retry.site) /\ retry.phase = "raised") =>
        retry.raised = Some(IF retry.site = "gemini_embed"
                            THEN "EmbeddingException" ELSE "LLMException")

----------------------------------------------------------------------------
(* Properties of the text cleaner, checked under SpecClean *)

\* C17: clean_text is idempotent: cleaning the output of clean_text again
\* returns it unchanged.
C17_CleanIdempotent ==
    (cleaner.op = "clean_text" /\ cleaner.passes = 2) =>
        cleaner.out = cleaner.input

\* the cells of CellTexts that are noise: empty, or without a digit and
\* without a run of two letters
NoiseCellTexts == {<<>>, <<"x">>, <<"-", "-">>}

\* the cells of CellTexts found in separator rows: nothing but dashes
SeparatorCellTexts == {<<>>, <<"-", "-">>}

\* the cells of some rows, row after row
RECURSIVE AllCells(_)
AllCells(rows) ==
    IF Len(rows) = 0 THEN <<>> ELSE Head(rows) \o AllCells(Tail(rows))

NoiseCount(cells) == Len(SelectSeq(cells, LAMBDA c : c \in NoiseCellTexts))

\* the rows with a cell that holds more than dashes
ContentRows(rows) ==
    SelectSeq(rows, LAMBDA row :
                      \E i \in 1..Len(row) : row[i] \notin SeparatorCellTexts)

\* the text left of the input of the cleaner when its table is dropped, or
\* kept as it is
TextWithTable(dropped) ==
    RenderTable(IF dropped THEN <<>> ELSE cleaner.rows,
                cleaner.before, cleaner.after)

PipeLine(line) ==
    \E f \in 1..Len(line) : \E g \in f..Len(line) :
        /\ line[f] = "|" /\ line[g] = "|"
        /\ \A k \in 1..Len(line) : (k < f \/ k > g) => line[k] \in Whitespace

\* a row of whitespace, pipes, dashes, colons and pluses only
SeparatorLine(line) ==
    Len(line) > 0
        /\ {line[k] : k \in 1..Len(line)}
                \subseteq Whitespace \cup {"|", "-", ":", "+"}

\* the positions of a line that are not pipes, and of those between the
\* first and the last of them that are
NotPipes(line) == {k \in 1..Len(line) : line[k] # "|"}

InnerPipes(line) ==
    {k \in 1..Len(line) :
        /\ line[k] = "|"
        /\ \E f \in NotPipes(line) : f < k
        /\ \E g \in NotPipes(line) : g > k}

\* the cells of a line, each given by the positions before its first and
\* after its last character: the pieces between the pipes of the line as
\* written, once the pipes at its very start and very end are removed
LineCells(line) ==
    IF NotPipes(line) = {} THEN {<<0, 1>>}
    ELSE LET lo == CHOOSE f \in NotPipes(line) :
                          \A k \in NotPipes(line) : f <= k
             hi == CHOOSE g \in NotPipes(line) :
                          \A k \in NotPipes(line) : g >= k
             stops == InnerPipes(line) \cup {hi + 1}
         IN  {<<b, CHOOSE e \in stops :
                       e > b /\ \A k \in stops : k > b => e <= k>> :
                 b \in InnerPipes(line) \cup {lo - 1}}

\* a cell is noise when it is empty or blank, or has no digit and no two
\* letters side by side
NoisePiece(line, cell) ==
    LET inside == {k \in (cell[1] + 1)..(cell[2] - 1) :
                      line[k] \notin Whitespace}
    IN  \/ inside = {}
        \/ /\ \A k \in inside : line[k] \notin Digits
           /\ ~\E k \in inside :
                  k + 1 \in inside /\ line[k] \in Letters
                      /\ line[k + 1] \in Letters

\* the lines of the table block of line i: the maximal run of pipe lines
\* around it
BlockLines(lines, i) ==
    {k \in 1..Len(lines) :
        \A n \in 1..Len(lines) :
            ((k <= n /\ n <= i) \/ (i <= n /\ n <= k)) => PipeLine(lines[n])}

\* the cells counted for the block of line i, those of its rows that are
\* not separator rows, and the noise cells among them
BlockCells(lines, i) ==
    UNION {{<<k, cell>> : cell \in LineCells(lines[k])} :
              k \in {n \in BlockLines(lines, i) : ~SeparatorLine(lines[n])}}

BlockNoise(lines, i) ==
    {c \in BlockCells(lines, i) : NoisePiece(lines[c[1]], c[2])}

\* the lines from line i on that are left: every line but those of a block
\* with more than half of its counted cells noise
RECURSIVE LeftFrom(_, _)
LeftFrom(lines, i) ==
    IF i > Len(lines) THEN <<>>
    ELSE (IF PipeLine(lines[i])
             /\ 2 * Cardinality(BlockNoise(lines, i))
                    > Cardinality(BlockCells(lines, i))
          THEN <<>> ELSE <<lines[i]>>) \o LeftFrom(lines, i + 1)

----------------------------------------------------------------------------
(* Properties of the chunkers, checked under SpecChunk *)

\* C19: ChunkerFactory.create raises ValueError for a strategy name other
\* than "markdown" and "recursive" and makes no chunker, and no
\* IngestionService is constructed with such a name: nothing of it is set up
\* and no text is ever chunked for it.
C19_UnknownStrategyRejected ==
    (chunker.op # "none" /\ chunker.strategy \notin {"markdown", "recursive"})
        => /\ chunker.op \in {"create", "construct"}
           /\ chunker.raised = Some("ValueError")
           /\ chunker.made = "none"
           /\ ~chunker.constructed
           /\ coll = AbsentCollection
           /\ createCalls = 0

C19_Witness ==
    /\ chunker.op = "construct"
    /\ chunker.strategy = "semantic"
    /\ chunker.raised = Some("ValueError")
    /\ ~chunker.constructed

\* the characters of a text that are not whitespace
Squeeze(text) == SelectSeq(text, LAMBDA c : c \notin Whitespace)

\* the chunks, taken in order, lie in the text one after the other, each
\* starting no later than where the ones before it end, and reach its end
RECURSIVE CoveredFrom(_, _, _)
CoveredFrom(text, chunks, reach) ==
    IF Len(chunks) = 0 THEN reach = Len(text)
    ELSE LET c == Squeeze(Head(chunks).content)
         IN  \E at \in 0..reach :
                /\ at + Len(c) <= Len(text)
                /\ SubSeq(text, at + 1, at + Len(c)) = c
                /\ CoveredFrom(text, Tail(chunks), Max(reach, at + Len(c)))

\* C20: the chunks chunk_text returns cover the input text: laid over the
\* text in order, overlaps allowed, they leave no character of it out
\* (whitespace is not counted).  Claimed of both strategies.
C20_ChunksCoverText ==
    chunker.op = "chunk_text" =>
        CoveredFrom(Squeeze(chunker.text), chunker.chunks, 0)

\* the same, of the recursive strategy alone
RecursiveChunksCoverText ==
    (chunker.op = "chunk_text" /\ chunker.made = "recursive") =>
        CoveredFrom(Squeeze(chunker.text), chunker.chunks, 0)

----------------------------------------------------------------------------
(* Properties of the workflow object and the service, under SpecGraph *)

\* C21: constructing RAGService with an LLM service, a vector store, a
\* prompt manager and rag_k completes without error and leaves a service
\* whose workflow is built from them, on which ask can then be called.
C21_ServiceConstructed ==
    graph.service # "none" =>
        /\ graph.raised = None
        /\ graph.service = "constructed"

\* C22: whatever build() and run() calls were made on one RAGGraph, the
\* workflow was compiled exactly once, by the first of them, and every call
\* returned or ran that same compiled object.
C22_CompiledOnce ==
    /\ graph.compiles <= 1
    /\ Len(graph.ops) > 0 => graph.compiles = 1 /\ graph.compiled = 1
    /\ \A i \in 1..Len(graph.used) : graph.used[i] = 1

C22_Witness ==
    /\ Len(graph.ops) = MaxGraphCalls
    /\ {"build", "run"} \subseteq Range(graph.ops)
    /\ graph.ops[1] = "run"
    /\ graph.compiles = 1

----------------------------------------------------------------------------
(* Properties of the application, checked under SpecApp *)

\* C23: after a startup in which every service could be initialised, each
\* well-formed ask request is dispatched to the RAGService created at
\* startup; 503 is answered only when the services were not initialised; and
\* after a startup in which a service failed to initialise no request is
\* served.
C23_RequestsDispatched ==
    \A i \in 1..Len(app.requests) :
        LET request == app.requests[i]
        IN  /\ app.broken = "none" =>
                  /\ request.reply = "dispatched"
                  /\ request.rag = LifespanState.rag_service
            /\ request.reply = "503" => app.phase # "serving"
            /\ app.broken # "none" => request.reply = "refused"

----------------------------------------------------------------------------
(* Properties of the single nodes, checked under SpecNodes *)

\* the query C24 expects: the rewritten question, the original one when the
\* rewritten question is missing or empty
ExpectedQuery(st) ==
    IF "rewritten_question" \in DOMAIN st /\ st.rewritten_question # ""
    THEN st.rewritten_question ELSE st.question

\* C24: RetrieveNode.execute calls advanced_search exactly once, with the
\* rewritten question as query, or the original question when the rewritten
\* question is missing or still empty, with the years of the state and the k
\* of the node, and stores the returned list unchanged as documents.
C24_RetrieveDelegates ==
    nodeRun.op = "retrieve" =>
        /\ Len(nodeRun.calls) = 1
        /\ nodeRun.calls[1].fn = "advanced_search"
        /\ nodeRun.calls[1].query = ExpectedQuery(nodeRun.input)
        /\ nodeRun.calls[1].years =
              (IF "years" \in DOMAIN nodeRun.input THEN nodeRun.input.years
               ELSE None)
        /\ nodeRun.calls[1].k = nodeRun.k
        /\ nodeRun.outcome.kind = "returns" =>
              nodeRun.state.documents = nodeRun.outcome.docs

\* C25: an execution of GenerateNode.execute that has its prompt templates
\* issues exactly one generation call, for every list of documents, the
\* empty list included, hands it the documents of the state, and stores no
\* answer but the one the provider returned.
C25_GenerateAlwaysCalls ==
    (nodeRun.op = "generate" /\ nodeRun.outcome.kind # "no_prompt") =>
        /\ Len(nodeRun.calls) = 1
        /\ nodeRun.calls[1].fn = "generate"
        /\ nodeRun.calls[1].docs = nodeRun.input.documents
        /\ nodeRun.prompt.template = "generate"
        /\ IF nodeRun.outcome.kind = "returns"
           THEN /\ nodeRun.raised = None
                /\ Len(nodeRun.state.answer) <= Len(nodeRun.outcome.text)
                /\ Len(nodeRun.state.answer) > 0 =>
                      Range(nodeRun.state.answer)
                          \subseteq Range(nodeRun.outcome.text)
           ELSE /\ nodeRun.raised # None
                /\ nodeRun.state.answer = nodeRun.input.answer

C25_Witness ==
    /\ nodeRun.op = "generate"
    /\ nodeRun.input.documents = <<>>
    /\ nodeRun.outcome.kind = "returns"
    /\ Len(nodeRun.calls) = 1
    /\ nodeRun.prompt.context = <<>>
    /\ nodeRun.state.answer = <<"a">>

\* a text without the whitespace at its two ends
Trimmed(text) ==
    LET inked == {i \in 1..Len(text) : text[i] \notin {" ", "\n", "\t", "\r"}}
    IN  IF inked = {} THEN <<>>
        ELSE SubSeq(text, CHOOSE i \in inked : \A j \in inked : i <= j,
                    CHOOSE i \in inked : \A j \in inked : j <= i)

\* C26: the answer GenerateNode.execute stores is the output of the provider
\* without its leading and trailing whitespace, and the prompt sent is the
\* generate template filled with the documents of the state, in order,
\* joined by a blank line, and with the original question, not the rewritten
\* one.
C26_AnswerTrimmedPromptOriginal ==
    (nodeRun.op = "generate" /\ nodeRun.outcome.kind = "returns") =>
        LET docs == nodeRun.input.documents
            context == nodeRun.prompt.context
        IN  /\ nodeRun.state.answer = Trimmed(nodeRun.outcome.text)
            /\ nodeRun.prompt.template = "generate"
            /\ nodeRun.prompt.question = nodeRun.input.question
            /\ Len(context) = IF Len(docs) = 0 THEN 0 ELSE 2 * Len(docs) - 1
            /\ \A i \in 1..Len(context) :
                  context[i] = IF i % 2 = 1 THEN docs[(i + 1) \div 2]
                               ELSE "\n\n"

C26_Witness ==
    /\ nodeRun.op = "generate"
    /\ nodeRun.outcome.kind = "returns"
    /\ nodeRun.outcome.text = <<" ", "a", "\n">>
    /\ nodeRun.state.answer = <<"a">>
    /\ nodeRun.input.documents = <<"B", "A">>
    /\ nodeRun.prompt.context = <<"B", "\n\n", "A">>
    /\ "rewritten_question" \in DOMAIN nodeRun.input
    /\ nodeRun.input.rewritten_question = "s1"
    /\ nodeRun.prompt.question = "q2"

\* the keys each node may write
OwnKeys(op) ==
    CASE op = "rewrite" -> {"rewritten_question", "years"}
      [] op = "retrieve" -> {"documents"}
      [] op = "generate" -> {"answer"}

\* C27: each node changes only its own fields of the state: rewrite only
\* rewritten_question and years, retrieve only documents, generate only
\* answer; the question is never changed, and years and documents are left
\* alone by the nodes that come after the one that sets them.
C27_OwnFieldsOnly ==
    nodeRun.op # "none" =>
        /\ DOMAIN nodeRun.state \subseteq
              DOMAIN nodeRun.input \cup OwnKeys(nodeRun.op)
        /\ \A key \in DOMAIN nodeRun.input \ OwnKeys(nodeRun.op) :
              /\ key \in DOMAIN nodeRun.state
              /\ nodeRun.state[key] = nodeRun.input[key]
        /\ nodeRun.state.question = nodeRun.input.question

C27_Witness ==
    /\ nodeRun.op = "retrieve"
    /\ nodeRun.raised = None
    /\ "years" \in DOMAIN nodeRun.input
    /\ nodeRun.input.years = Some(<<2022>>)
    /\ nodeRun.state.years = Some(<<2022>>)
    /\ nodeRun.input.documents = <<"A">>
    /\ nodeRun.state.documents = <<"B", "A">>

\* C28: after RewriteNode.execute returned, rewritten_question and years are
\* either the query of the structured result with its years (None when the
\* list is empty), or the original question with None; years is never an
\* empty list, and the two shapes are never mixed, also when the result
\* failed in use after the first field was written.
C28_RewriteShapes ==
    (nodeRun.op = "rewrite" /\ nodeRun.raised = None) =>
        /\ {"rewritten_question", "years"} \subseteq DOMAIN nodeRun.state
        /\ nodeRun.state.years # Some(<<>>)
        /\ IF nodeRun.outcome.kind = "returns"
           THEN /\ nodeRun.state.rewritten_question = nodeRun.outcome.query
                /\ nodeRun.state.years =
                      (IF nodeRun.outcome.years = <<>> THEN None
                       ELSE Some(nodeRun.outcome.years))
           ELSE /\ nodeRun.state.rewritten_question = nodeRun.input.question
                /\ nodeRun.state.years = None

C28_Witness ==
    /\ nodeRun.op = "rewrite"
    /\ nodeRun.outcome.kind = "breaks_after_query"
    /\ "years" \in DOMAIN nodeRun.input
    /\ nodeRun.input.years = Some(<<2022>>)
    /\ nodeRun.state.rewritten_question = nodeRun.input.question
    /\ nodeRun.state.years = None

----------------------------------------------------------------------------
(* Property of add_documents, checked under SpecStore *)

\* C29: add_documents is all-or-nothing for embedding failures: when the
\* dense or the sparse embedding of a passage of the batch fails, no point of
\* the batch is written, the collection is as it was before the call, and
\* the call raises.
C29_AddAllOrNothing ==
    [][ (/\ AddDocuments
         /\ last'.cause \in {"EmbeddingException", "ResourceExhausted"})
        => /\ coll' = coll
           /\ acked' = acked
           /\ last'.raised # None ]_vars

C29_Witness ==
    /\ last.op = "add"
    /\ last.cause = "EmbeddingException"
    /\ last.raised = Some("VectorStoreException")
    /\ coll.exists
    /\ Cardinality(DOMAIN coll.points) = 1

----------------------------------------------------------------------------
(* Property of the chunker factory, checked under SpecRegistry *)

\* the class of the built-in strategies
BuiltInClass(strategy) ==
    CASE strategy = "markdown" -> "MarkdownChunker"
      [] strategy = "recursive" -> "RecursiveChunker"

\* the class create makes, by the name the model gives it
MadeClass(made) ==
    IF made \in {"markdown", "recursive"} THEN BuiltInClass(made) ELSE made

\* C30: after ChunkerFactory.register(name, chunker_class) was called,
\* ChunkerFactory.create(name) returns an instance of chunker_class, and the
\* built-in strategies markdown and recursive remain available.
C30_RegisteredIsCreated ==
    registry.created.op = "create" =>
        LET created == registry.created
            before == SubSeq(registry.calls, 1, created.seen)
            mine == {i \in 1..Len(before) :
                        before[i].name = created.strategy}
        IN  /\ \A i \in 1..Len(before) : before[i].raised = None
            /\ mine # {} =>
                  /\ created.raised = None
                  /\ MadeClass(created.made) =
                        before[CHOOSE i \in mine : \A j \in mine : j <= i].class
            /\ (mine = {} /\ created.strategy \in {"markdown", "recursive"}) =>
                  /\ created.raised = None
                  /\ MadeClass(created.made) = BuiltInClass(created.strategy)

====
